---------------------------- MODULE Spec2Model ----------------------------
(***************************************************************************)
(* A model of ktsdb, an embedded time-series database on top of an ordered *)
(* key/value store (badger).  The ordered keyspace is split by its leading  *)
(* discriminator byte into the series metadata ('s'), the tag postings      *)
(* ('i') and the data points ('d').                                         *)
(*                                                                          *)
(* Strings are sequences of one-character strings; a byte of a binary key   *)
(* is a number below ByteRadix.  A 64-bit word of the program is a word of  *)
(* SeriesIDSize (TimestampSize) bytes of ByteBits bits each.                *)
(***************************************************************************)
EXTENDS Integers, Sequences, FiniteSets, TLC

\* ------------------------------------------------------------------ bounds
\* Bits per byte of the model (8 in the program).
ByteBits == 2
\* Distinct series a run registers.
MaxSeries == 2
\* Data points a run stores.
MaxPoints == 3
\* Sessions (Open ... Close) of a run.
MaxSessions == 2

\* ------------------------------------------------------- program constants
PrefixData == 100
SeriesIDSize == 8
TimestampSize == 8
DataKeySize == 1 + SeriesIDSize + TimestampSize

\* ------------------------------------------------------------------ words
RECURSIVE Pow2(_)
Pow2(n) == IF n = 0 THEN 1 ELSE 2 * Pow2(n - 1)

ByteRadix == Pow2(ByteBits)
\* 2^64 of the program: the modulus of a SeriesIDSize-byte word.
WordMod == Pow2(ByteBits * SeriesIDSize)
MaxInt64 == (WordMod \div 2) - 1
MinInt64 == -(WordMod \div 2)

\* uint64(x) of a signed value: two's complement reinterpretation.
ToUint64(x) == x % WordMod
\* int64(u) of an unsigned value.
ToInt64(u) == IF u >= WordMod \div 2 THEN u - WordMod ELSE u
\* ^x on a signed 64-bit value: bitwise complement.
NotInt64(x) == -x - 1
\* ^u on an unsigned 64-bit value.
NotUint64(u) == WordMod - 1 - u

\* binary.BigEndian.PutUint64: the n bytes of u, most significant first.
PutUint64(u, n) == [i \in 1..n |-> (u \div Pow2(ByteBits * (n - i))) % ByteRadix]

\* binary.BigEndian.Uint64: the value of a big-endian byte sequence.
RECURSIVE Uint64(_)
Uint64(b) ==
    IF Len(b) = 0 THEN 0
    ELSE Uint64(SubSeq(b, 1, Len(b) - 1)) * ByteRadix + b[Len(b)]

\* bytes.Compare(a, b) < 0 for byte sequences (and Go's < on strings, through
\* the codes of their characters).
RECURSIVE BytesLess(_, _)
BytesLess(a, b) ==
    IF Len(b) = 0 THEN FALSE
    ELSE IF Len(a) = 0 THEN TRUE
    ELSE IF a[1] /= b[1] THEN a[1] < b[1]
    ELSE BytesLess(Tail(a), Tail(b))

\* bytes.HasPrefix(key, prefix).
HasPrefix(key, prefix) ==
    Len(key) >= Len(prefix) /\ SubSeq(key, 1, Len(prefix)) = prefix

\* ------------------------------------------------------------------ codec
\* EncodeDataKey that leaves the timestamp bytes zero.
EncodeDataKeyNoTimestamp(seriesID, timestamp) ==
    <<PrefixData>> \o PutUint64(seriesID, SeriesIDSize)
        \o [i \in 1..TimestampSize |-> 0]

\* EncodeDataKey: 'd' | seriesID (BE) | ^timestamp (BE).
EncodeDataKey(seriesID, timestamp) ==
    <<PrefixData>> \o PutUint64(seriesID, SeriesIDSize)
                   \o PutUint64(ToUint64(NotInt64(timestamp)), TimestampSize)

\* DecodeDataKey that does not complement the timestamp bytes.
DecodeDataKeyNoComplement(buf) ==
    [seriesID |-> Uint64(SubSeq(buf, 2, 1 + SeriesIDSize)),
     ts |-> ToInt64(Uint64(SubSeq(buf, 2 + SeriesIDSize, DataKeySize)))]

\* DecodeDataKey: (seriesID, timestamp) of a data key.
DecodeDataKey(buf) ==
    [seriesID |-> Uint64(SubSeq(buf, 2, 1 + SeriesIDSize)),
     ts |-> ToInt64(NotUint64(Uint64(SubSeq(buf, 2 + SeriesIDSize, DataKeySize))))]

\* DataKeyPrefix without the last byte of the series ID.
DataKeyPrefixShort(seriesID) ==
    SubSeq(<<PrefixData>> \o PutUint64(seriesID, SeriesIDSize), 1, SeriesIDSize)

\* DataKeyPrefix: 'd' | seriesID (BE), the prefix of a series' data keys.
DataKeyPrefix(seriesID) == <<PrefixData>> \o PutUint64(seriesID, SeriesIDSize)

\* ---------------------------------------------------------------- strings
\* The characters of metric names, tag keys and tag values, in the order of
\* their byte values.
Alphabet == <<",", "=", "a", "b", "c">>
Code(ch) == CHOOSE i \in 1..Len(Alphabet) : Alphabet[i] = ch
Codes(s) == [i \in 1..Len(s) |-> Code(s[i])]
\* Go's s1 < s2 on strings: bytewise lexicographic.
StrLess(s1, s2) == BytesLess(Codes(s1), Codes(s2))

\* xxhash.Digest: Sum64 of the bytes written since Reset.  The hash is taken
\* to be injective on the byte stream it is fed: the stream read as a number
\* with one digit per character.
HashRadix == Len(Alphabet) + 1
RECURSIVE Sum64(_)
Sum64(stream) ==
    IF Len(stream) = 0 THEN 0
    ELSE (Sum64(SubSeq(stream, 1, Len(stream) - 1)) * HashRadix
          + Code(stream[Len(stream)])) % WordMod

\* ----------------------------------------------------------------- tagset
Tag(k, v) == [Key |-> k, Value |-> v]

\* The less function of Tagset.Sort: by key, then by value.
TagLess(t1, t2) ==
    IF t1.Key /= t2.Key THEN StrLess(t1.Key, t2.Key)
    ELSE StrLess(t1.Value, t2.Value)

\* Insert tag x into the sorted tagset t.
RECURSIVE InsertTag(_, _)
InsertTag(x, t) ==
    IF Len(t) = 0 THEN <<x>>
    ELSE IF TagLess(t[1], x) THEN <<t[1]>> \o InsertTag(x, Tail(t))
    ELSE <<x>> \o t

\* Tagset.Sort with the tags left in the order given.
SortNone(t) == t

\* Tagset.Sort: the tagset sorted by key, then value.
RECURSIVE Sort(_)
Sort(t) == IF Len(t) = 0 THEN <<>> ELSE InsertTag(t[1], Sort(Tail(t)))

\* FromMap: the sorted tagset of a map from tag keys to tag values (nil, the
\* empty tagset, for an empty map).
RECURSIVE FromMap(_)
fromMapFrom(m, k) ==
    InsertTag(Tag(k, m[k]), FromMap([y \in DOMAIN m \ {k} |-> m[y]]))
FromMap(m) ==
    IF DOMAIN m = {} THEN <<>>
    ELSE fromMapFrom(m, CHOOSE x \in DOMAIN m : TRUE)

\* Tagset.Get: the value of a key, or the empty string.
RECURSIVE TagsetGet(_, _)
TagsetGet(t, key) ==
    IF Len(t) = 0 THEN <<>>
    ELSE IF t[1].Key = key THEN t[1].Value
    ELSE TagsetGet(Tail(t), key)

\* ----------------------------------------------------------------- series
\* The byte stream SeriesHasher.ComputeSeriesID writes: the metric, then each
\* tag's key and value, with nothing between them.
RECURSIVE TagStream(_)
TagStream(tags) ==
    IF Len(tags) = 0 THEN <<>>
    ELSE tags[1].Key \o tags[1].Value \o TagStream(Tail(tags))

\* ComputeSeriesID: the hash of metric and tags, in the order given.
ComputeSeriesID(metric, tags) == Sum64(metric \o TagStream(tags))

\* SeriesMeta, as json.Marshal writes and json.Unmarshal reads it.
SeriesMeta(metric, tags) == [m |-> metric, t |-> tags]

\* formatTagKey: the posting key of a tag of a metric.
formatTagKey(metric, tagKey, tagValue) ==
    IF tagKey = <<>> THEN metric
    ELSE metric \o <<"#">> \o tagKey \o <<":">> \o tagValue

\* EncodeDataValue: the big-endian bytes of math.Float64bits(value).  A value
\* of the model is the bit pattern of a float64.
EncodeDataValue(value) == PutUint64(value, SeriesIDSize)
\* DecodeDataValue: math.Float64frombits of the big-endian bytes.
DecodeDataValue(buf) == Uint64(buf)

\* ------------------------------------------------------------------ state
VARIABLES
    series,     \* store, 's' keys: SeriesID -> SeriesMeta
    postings,   \* store, 'i' keys: posting key -> the serialized bitmap's IDs
    points,     \* store, 'd' keys: data key -> encoded value
    regCache,   \* SeriesRegistry.cache: the SeriesIDs known to exist
    idxCache,   \* TagIndex.cache: posting key -> reference of a bitmap object
    heap,       \* the bitmap objects of the session: reference -> IDs
    session,    \* the number of the current Open ... Close session
    ret,        \* the last completed call and what it returned
    asked,      \* history: the (metric, tags) GetOrCreate has been called with
    indexed,    \* history: the Index calls that returned nil
    written,    \* history: (metric, series, timestamp) of the WriteAt calls
                \* that returned nil -> the value of the last of them
    threads,    \* the calls in progress on concurrent threads: thread ->
                \* the call, its position in the code and its locals
    batch,      \* the BatchWriter of the run: its WriteBatch and what was
                \* added to it
    iter,       \* the Iterator of the run: its fields, its read transaction
                \* and the points it has yielded
    arg,        \* the argument of the call of a function without a database
                \* (Aggregate, ParseFilter)
    closed,     \* Database.closed
    closes      \* history: the calls of Close on the store of the Database

vars == <<series, postings, points, regCache, idxCache, heap, session, ret,
          asked, indexed, written, threads, batch, iter, arg, closed, closes>>

\* The store and the caches of the open database as one value, so that an
\* operation is a function from database to database.
\* faults is what the store fails to do during a call: to read the
\* SeriesMeta of the series in meta and the data entries of the series in
\* data, to commit the transaction of persist (index) and to commit the
\* transaction that sets a data point (point).
NoFaults == [meta |-> {}, data |-> {}, index |-> FALSE, point |-> FALSE]
ErrRead == "read failed"
\* What the commit of a transaction returns when the store fails to write.
ErrCommit == "commit failed"
DB == [series |-> series, postings |-> postings, points |-> points,
       regCache |-> regCache, idxCache |-> idxCache, heap |-> heap,
       faults |-> NoFaults]

EmptyMap == [x \in {} |-> {}]
Put(f, k, v) == [x \in DOMAIN f \cup {k} |-> IF x = k THEN v ELSE f[x]]
Nil == "nil"

\* The commit of a transaction: its pending writes replace what is stored
\* under their keys.
Commit(stored, pend) ==
    [k \in DOMAIN stored \cup DOMAIN pend |->
        IF k \in DOMAIN pend THEN pend[k] ELSE stored[k]]

\* --------------------------------------------------------- SeriesRegistry
\* GetOrCreate once the tags are sorted and the ID is computed: the cache,
\* then inside one transaction the store, then the write of the SeriesMeta.
getOrCreateID(db, metric, tags, id) ==
    IF id \in db.regCache
    THEN [db |-> db, id |-> id, created |-> FALSE, err |-> Nil, tags |-> tags]
    ELSE IF id \in DOMAIN db.series
    THEN [db |-> [db EXCEPT !.regCache = @ \cup {id}],
          id |-> id, created |-> FALSE, err |-> Nil, tags |-> tags]
    ELSE [db |-> [db EXCEPT !.regCache = @ \cup {id},
                            !.series = Put(@, id, SeriesMeta(metric, tags))],
          id |-> id, created |-> TRUE, err |-> Nil, tags |-> tags]

getOrCreateSorted(db, metric, tags) ==
    getOrCreateID(db, metric, tags, ComputeSeriesID(metric, tags))

\* SeriesRegistry.GetOrCreate: sorts the tagset in place (tags of the result).
GetOrCreate(db, metric, tagset) == getOrCreateSorted(db, metric, Sort(tagset))

\* --------------------------------------------------------------- TagIndex
\* The reference of the next bitmap object made for a posting key: the key
\* and the number of the object among those made for the key in the session.
NewRef(db, key) ==
    <<key, 1 + Cardinality({r \in DOMAIN db.heap : r[1] = key})>>

\* roaring64.New(): a new bitmap object, under reference ref.
NewBitmap(db, ref, ids) == [db EXCEPT !.heap = Put(@, ref, ids)]

\* indexTag with Store in place of LoadOrStore: the key gets a new bitmap that
\* holds the series ID alone.
indexTagStore(db, key, seriesID) ==
    [NewBitmap(db, NewRef(db, key), {seriesID}) EXCEPT
        !.idxCache = Put(@, key, NewRef(db, key))]

\* indexTag: LoadOrStore the key's bitmap, then Add the series ID to it.
\* sync.Map.LoadOrStore(key, roaring64.New()) on the cache of the index.
LoadOrStore(db, key) ==
    IF key \in DOMAIN db.idxCache THEN db
    ELSE [NewBitmap(db, NewRef(db, key), {}) EXCEPT
             !.idxCache = Put(@, key, NewRef(db, key))]

\* Bitmap.Add on the bitmap object bm.
Add(db, bm, seriesID) == [db EXCEPT !.heap[bm] = @ \cup {seriesID}]

addCached(db, key, seriesID) == Add(db, db.idxCache[key], seriesID)

indexTag(db, key, seriesID) == addCached(LoadOrStore(db, key), key, seriesID)

\* persistKey: write the cached bitmap of the key under 'i' | key.
persistKey(db, key) ==
    IF key \notin DOMAIN db.idxCache THEN db
    ELSE [db EXCEPT !.postings = Put(@, key, db.heap[db.idxCache[key]])]

\* The posting keys of a series: the metric, then one per tag.
PostingKeys(metric, tags) ==
    <<metric>> \o [i \in 1..Len(tags) |->
                      formatTagKey(metric, tags[i].Key, tags[i].Value)]

RECURSIVE indexTags(_, _, _)
indexTags(db, keys, seriesID) ==
    IF Len(keys) = 0 THEN db
    ELSE indexTags(indexTag(db, keys[1], seriesID), Tail(keys), seriesID)

\* persist: one transaction that writes the bitmap of every key.
RECURSIVE persistKeys(_, _)
persistKeys(db, keys) ==
    IF Len(keys) = 0 THEN db
    ELSE persistKeys(persistKey(db, keys[1]), Tail(keys))

persist(db, metric, tags) == persistKeys(db, PostingKeys(metric, tags))

\* Index: add the series to the bitmap of the metric and of each of its tags,
\* then persist those bitmaps.
Index(db, metric, tags, seriesID) ==
    IF db.faults.index
    THEN [db |-> indexTags(db, PostingKeys(metric, tags), seriesID),
          err |-> ErrCommit]
    ELSE [db |-> persist(indexTags(db, PostingKeys(metric, tags), seriesID),
                         metric, tags),
          err |-> Nil]

\* getBitmap: the cached bitmap of the key, else the stored one (empty when
\* the key is not in the store), which is then put into the cache.
\* The IDs of the stored bitmap of a posting key: none when the key is not
\* in the store.
StoredIDs(db, key) ==
    IF key \in DOMAIN db.postings THEN db.postings[key] ELSE {}

\* sync.Map.Store(key, bm) of a new bitmap object.
storeNew(db, key, bm, ids) ==
    [db |-> [NewBitmap(db, bm, ids) EXCEPT !.idxCache = Put(@, key, bm)],
     bm |-> bm, err |-> Nil]

getBitmap(db, key) ==
    IF key \in DOMAIN db.idxCache
    THEN [db |-> db, bm |-> db.idxCache[key], err |-> Nil]
    ELSE storeNew(db, key, NewRef(db, key), StoredIDs(db, key))

GetSeriesIDs(db, metric, tagKey, tagValue) ==
    getBitmap(db, formatTagKey(metric, tagKey, tagValue))

GetAllSeriesIDs(db, metric) == getBitmap(db, metric)

\* ------------------------------------------------------------------ write
\* Database.WriteAtWithTagset.
\* The end of WriteAtWithTagset: i is what Index returned (or nothing to
\* index); the data point is set in a transaction of its own.
writePoint(i, id, created, value, timestamp) ==
    IF i.err /= Nil
    THEN [db |-> i.db, err |-> i.err, id |-> id, created |-> created]
    ELSE IF i.db.faults.point
    THEN [db |-> i.db, err |-> ErrCommit, id |-> id, created |-> created]
    ELSE [db |-> [i.db EXCEPT
                     !.points = Put(@, EncodeDataKey(id, timestamp),
                                    EncodeDataValue(value))],
          err |-> Nil, id |-> id, created |-> created]

\* WriteAtWithTagset after GetOrCreate has returned g.
writeSeries(g, metric, value, timestamp) ==
    IF g.err /= Nil
    THEN [db |-> g.db, err |-> g.err, id |-> g.id, created |-> g.created]
    ELSE writePoint(IF g.created THEN Index(g.db, metric, g.tags, g.id)
                    ELSE [db |-> g.db, err |-> Nil],
                    g.id, g.created, value, timestamp)

WriteAtWithTagset(db, metric, value, tagset, timestamp) ==
    writeSeries(GetOrCreate(db, metric, tagset), metric, value, timestamp)

\* Database.WriteAt.
WriteAt(db, metric, value, tags, timestamp) ==
    WriteAtWithTagset(db, metric, value, FromMap(tags), timestamp)

\* ------------------------------------------------------------------- read
QueryOptions(start, end, limit) == [Start |-> start, End |-> end, Limit |-> limit]
DataPoint(ts, value) == [Timestamp |-> ts, Value |-> value]

\* The keys of a set in ascending byte order: the order of the store.
RECURSIVE SortKeys(_)
sortKeysFrom(S, k) == <<k>> \o SortKeys(S \ {k})
SortKeys(S) ==
    IF S = {} THEN <<>>
    ELSE sortKeysFrom(S, CHOOSE x \in S : \A y \in S : ~BytesLess(y, x))

\* it.Seek(seekKey) on an iterator with no Prefix set: every key that is not
\* below seekKey.
SeekKeysNoPrefix(db, prefix, seekKey) ==
    SortKeys({k \in DOMAIN db.points : ~BytesLess(k, seekKey)})

\* it.Seek(seekKey) on an iterator with Prefix set: the keys with the prefix
\* that are not below seekKey, in ascending order.
SeekKeys(db, prefix, seekKey) ==
    SortKeys({k \in DOMAIN db.points :
                 HasPrefix(k, prefix) /\ ~BytesLess(k, seekKey)})

\* The seek key of a range read: the data key of End when End > 0, else the
\* prefix followed by zero bytes.
SeekKey(seriesID, opts) ==
    IF opts.End > 0 THEN EncodeDataKey(seriesID, opts.End)
    ELSE DataKeyPrefix(seriesID) \o [i \in 1..TimestampSize |-> 0]

\* The loop of Database.Query over the keys from the seek position on.
RECURSIVE queryLoop(_, _, _, _)
\* One turn of the loop, at the key keys[1] with timestamp ts.
queryStep(db, keys, opts, pts, ts) ==
    IF opts.Start > 0 /\ ts < opts.Start THEN pts
    ELSE IF opts.End > 0 /\ ts > opts.End
    THEN queryLoop(db, Tail(keys), opts, pts)
    ELSE IF opts.Limit > 0 /\ Len(pts) + 1 >= opts.Limit
    THEN Append(pts, DataPoint(ts, DecodeDataValue(db.points[keys[1]])))
    ELSE queryLoop(db, Tail(keys), opts,
                   Append(pts, DataPoint(ts, DecodeDataValue(db.points[keys[1]]))))

queryLoop(db, keys, opts, pts) ==
    IF Len(keys) = 0 THEN pts
    ELSE queryStep(db, keys, opts, pts, DecodeDataKey(keys[1]).ts)

\* Database.Query: the points of a series in a time range, in key order.
Query(db, seriesID, opts) ==
    queryLoop(db, SeekKeys(db, DataKeyPrefix(seriesID), SeekKey(seriesID, opts)),
              opts, <<>>)

\* ------------------------------------------------------------------ query
TagFilter(k, v) == <<"tag", k, v>>
AndFilter(l, r) == <<"and", l, r>>
OrFilter(l, r) == <<"or", l, r>>

\* A bitmap a call returns: a cached object (by reference) or a new one.
Cached(db, bm) == [ref |-> bm, ids |-> db.heap[bm]]
Fresh(ids) == [ref |-> <<>>, ids |-> ids]

\* Intersect and Union of two bitmaps: a clone of the first, And/Or the second.
Intersect(b1, b2) == Fresh(b1.ids \cap b2.ids)
Union(b1, b2) == Fresh(b1.ids \cup b2.ids)

\* Query.evalFilter: TagFilter by posting lookup, AndFilter and OrFilter from
\* their children, left first.
RECURSIVE evalFilter(_, _, _)
\* What a posting lookup that returned g gives the evaluation.
lookedUp(g) == [db |-> g.db, bm |-> Cached(g.db, g.bm), err |-> g.err]

\* An AndFilter or OrFilter whose children evaluated to l and r.
combine(op, l, r) ==
    IF r.err /= Nil THEN r
    ELSE [db |-> r.db,
          bm |-> IF op = "and" THEN Intersect(l.bm, r.bm)
                 ELSE Union(l.bm, r.bm),
          err |-> Nil]

evalRight(metric, f, l) ==
    IF l.err /= Nil THEN l ELSE combine(f[1], l, evalFilter(l.db, metric, f[3]))

evalFilter(db, metric, f) ==
    IF f[1] = "tag" THEN lookedUp(GetSeriesIDs(db, metric, f[2], f[3]))
    ELSE evalRight(metric, f, evalFilter(db, metric, f[2]))

NoFilter == <<>>

\* Query.resolveFilter: the metric-wide posting when there is no filter.
resolveFilter(db, metric, f) ==
    IF f = NoFilter THEN lookedUp(GetAllSeriesIDs(db, metric))
    ELSE evalFilter(db, metric, f)

\* Query.ExecuteRaw.
ExecuteRaw(db, metric, f) == resolveFilter(db, metric, f)

\* Query.Execute that keeps the result of every series of the resolved
\* bitmap, also an empty one.
executeOnAll(r, opts) ==
    [db |-> r.db, err |-> r.err,
     results |-> [id \in r.bm.ids |-> Query(r.db, id, opts)]]

\* Query.Execute: the points of every series of the resolved bitmap that has
\* any, by series ID.
executeOn(r, opts) ==
    [db |-> r.db, err |-> r.err,
     results |-> [id \in {x \in r.bm.ids : Len(Query(r.db, x, opts)) > 0} |->
                     Query(r.db, id, opts)]]

Execute(db, metric, f, opts) == executeOn(resolveFilter(db, metric, f), opts)

\* ----------------------------------------------------------------- inputs
Metrics == {<<"c">>}
TagKeys == {<<"a">>, <<"a", "b">>}
TagValues == {<<"c">>, <<"b", "c">>}
Tags == {Tag(k, v) : k \in TagKeys, v \in TagValues}
\* The tag maps WriteAt takes: a value for each key of a set of keys.
TagMaps == UNION {[D -> TagValues] : D \in SUBSET TagKeys}
\* The tagsets GetOrCreate takes: tags with distinct keys, in any order.
Tagsets ==
    {t \in UNION {[1..n -> Tags] : n \in 0..Cardinality(TagKeys)} :
        \A i, j \in 1..Len(t) : i /= j => t[i].Key /= t[j].Key}
\* Bit patterns of float64 values.
Values == {1, 2}

\* ------------------------------------------------------------ sequential
\* Bounds of the concurrent runs: the threads, and the calls each makes.
MaxThreads == 2
MaxCalls == 2
Threads == 1..MaxThreads

NoOpts == QueryOptions(0, 0, 0)

\* A thread that has made no call yet.
IdleThread ==
    [pc |-> "idle", op |-> "none", calls |-> 0, metric |-> <<>>, tags |-> <<>>,
     id |-> 0, found |-> FALSE, created |-> FALSE, returned |-> FALSE,
     err |-> Nil, key |-> <<>>, keys |-> <<>>, bm |-> <<>>, ids |-> {},
     pend |-> EmptyMap, must |-> {}, res |-> EmptyMap, value |-> 0, ts |-> 0,
     opts |-> NoOpts, todo |-> <<>>, seen |-> {}, visited |-> {}]
\* No BatchWriter yet: made counts the batch writers of the run, n the Set
\* calls of the WriteBatch's current transaction, pend its pending writes,
\* added the points added to the batch and base the data entries without
\* those of this batch.
NoBatch == [state |-> "none", made |-> 0, n |-> 0, pend |-> EmptyMap,
            added |-> EmptyMap, base |-> EmptyMap]

\* No Iterator yet: snap is the data entries its read transaction sees, keys
\* those from the cursor on, out the points Value has returned.  faults is
\* the data keys whose value the store fails to read, and calls is what each
\* call of Next returned with what Value returned after it.
NoIter == [state |-> "none", made |-> 0, seriesID |-> 0, opts |-> NoOpts,
           snap |-> EmptyMap, keys |-> <<>>, started |-> FALSE, done |-> FALSE,
           err |-> Nil, current |-> DataPoint(0, 0), out |-> <<>>,
           faults |-> {}, calls |-> <<>>]

NoRet == [op |-> "none", metric |-> <<>>, tags |-> <<>>, id |-> 0,
          created |-> FALSE, err |-> Nil, first |-> FALSE, key |-> <<>>,
          ids |-> {}, pts |-> <<>>, opts |-> NoOpts, filter |-> <<>>,
          input |-> <<>>, aggOpts |-> [Func |-> 0, BucketSize |-> 0],
          buckets |-> <<>>, groupBy |-> <<>>, results |-> <<>>,
          exists |-> FALSE]

\* Open on an empty directory: an empty store and empty caches.
InitDB ==
    /\ series = EmptyMap
    /\ postings = EmptyMap
    /\ points = EmptyMap
    /\ regCache = {}
    /\ idxCache = EmptyMap
    /\ heap = EmptyMap
    /\ session = 1
    /\ ret = NoRet
    /\ asked = {}
    /\ indexed = {}
    /\ written = EmptyMap
    /\ threads = [t \in Threads |-> IdleThread]
    /\ batch = NoBatch
    /\ iter = NoIter
    /\ closed = FALSE
    /\ closes = 0

\* No argument: the calls are those on the database.
NoArg == <<>>

Init == InitDB /\ arg = NoArg

SetDB(db) ==
    /\ series' = db.series
    /\ postings' = db.postings
    /\ points' = db.points
    /\ regCache' = db.regCache
    /\ idxCache' = db.idxCache
    /\ heap' = db.heap

\* A call of SeriesRegistry.GetOrCreate that returns r.
GetOrCreateReturns(r, metric, tagset) ==
    /\ r.created => Cardinality(DOMAIN series) < MaxSeries
    /\ SetDB(r.db)
    /\ ret' = [NoRet EXCEPT !.op = "GetOrCreate", !.metric = metric,
                            !.tags = r.tags, !.id = r.id,
                            !.created = r.created, !.err = r.err,
                            !.first = (<<metric, r.tags>> \notin asked),
                            !.input = tagset]
    /\ asked' = asked \cup {<<metric, r.tags>>}
    /\ UNCHANGED <<session, indexed, written, threads, batch, iter,
                   arg, closed, closes>>

DoGetOrCreate(metric, tagset) ==
    GetOrCreateReturns(GetOrCreate(DB, metric, tagset), metric, tagset)

\* A call of Database.WriteAt that returns r; tagset is FromMap of its tags.
WriteAtReturns(r, metric, value, tagset, timestamp) ==
    /\ r.created => Cardinality(DOMAIN series) < MaxSeries
    /\ Cardinality(DOMAIN r.db.points) <= MaxPoints
    /\ SetDB(r.db)
    /\ ret' = [NoRet EXCEPT !.op = "WriteAt", !.metric = metric,
                            !.tags = tagset, !.id = r.id,
                            !.created = r.created, !.err = r.err,
                            !.first = (<<metric, tagset>> \notin asked)]
    /\ asked' = asked \cup {<<metric, tagset>>}
    /\ indexed' = IF r.created /\ r.err = Nil
                  THEN indexed \cup {[metric |-> metric, tags |-> tagset,
                                      id |-> r.id, session |-> session]}
                  ELSE indexed
    /\ written' = IF r.err = Nil
                  THEN Put(written, [metric |-> metric, id |-> r.id,
                                     ts |-> timestamp], value)
                  ELSE written
    /\ batch' = IF batch.state /= "none" /\ r.err = Nil
                THEN [batch EXCEPT !.base = Put(@, EncodeDataKey(r.id, timestamp),
                                                EncodeDataValue(value))]
                ELSE batch
    /\ UNCHANGED <<session, threads, iter, arg, closed, closes>>

WriteAtTagset(metric, value, tagset, timestamp) ==
    WriteAtReturns(WriteAtWithTagset(DB, metric, value, tagset, timestamp),
                   metric, value, tagset, timestamp)

DoWriteAt(metric, value, tags, timestamp) ==
    WriteAtTagset(metric, value, FromMap(tags), timestamp)

\* A direct call of TagIndex.Index that returns r.
IndexReturns(r, metric, tags, seriesID) ==
    /\ SetDB(r.db)
    /\ ret' = [NoRet EXCEPT !.op = "Index", !.metric = metric, !.tags = tags,
                            !.id = seriesID, !.err = r.err]
    /\ indexed' = IF r.err = Nil
                  THEN indexed \cup {[metric |-> metric, tags |-> tags,
                                      id |-> seriesID, session |-> session]}
                  ELSE indexed
    /\ UNCHANGED <<session, asked, written, threads, batch, iter, arg, closed,
                   closes>>

\* db.Index().Index(metric, tags, seriesID): Index takes any tags and any ID,
\* whatever the registry holds for the ID.
DoIndex(metric, tags, seriesID) ==
    IndexReturns(Index(DB, metric, tags, seriesID), metric, tags, seriesID)

\* A posting lookup of the key that returns r.
LookupReturns(r, op, metric, key) ==
    /\ SetDB(r.db)
    /\ ret' = [NoRet EXCEPT !.op = op, !.metric = metric, !.key = key,
                            !.err = r.err, !.ids = r.db.heap[r.bm]]
    /\ UNCHANGED <<session, asked, indexed, written, threads, batch, iter,
                   arg, closed, closes>>

\* A call of TagIndex.GetAllSeriesIDs.
DoGetAllSeriesIDs(metric) ==
    LookupReturns(GetAllSeriesIDs(DB, metric), "GetAllSeriesIDs", metric, metric)

\* A call of TagIndex.GetSeriesIDs.
DoGetSeriesIDs(metric, tagKey, tagValue) ==
    LookupReturns(GetSeriesIDs(DB, metric, tagKey, tagValue), "GetSeriesIDs",
                  metric, formatTagKey(metric, tagKey, tagValue))

\* Close, then Open on the same directory: the store is kept, the registry
\* and the tag index start with empty caches.
DoReopen ==
    /\ session < MaxSessions
    /\ session' = session + 1
    /\ regCache' = {}
    /\ idxCache' = EmptyMap
    /\ heap' = EmptyMap
    /\ ret' = [NoRet EXCEPT !.op = "Reopen"]
    /\ UNCHANGED <<series, postings, points, asked, indexed, written, threads,
                   batch, iter, arg, closed, closes>>

\* The registry alone: GetOrCreate calls over sessions of one database.
NextRegistry ==
    \/ \E m \in Metrics, t \in Tagsets : DoGetOrCreate(m, t)
    \/ DoReopen

SpecRegistry == Init /\ [][NextRegistry]_vars

\* The tags of the series written and registered: none, one and two.
SeqTagMaps ==
    {EmptyMap, [k \in {<<"a">>} |-> <<"c">>], [k \in TagKeys |-> <<"c">>]}
SeqTagValues == {<<"c">>}
\* Tags a direct call of Index is given for an ID besides the ID's own.
IndexTagsets == {<<Tag(<<"a">>, <<"c">>), Tag(<<"a", "b">>, <<"c">>)>>}

\* Writes, registrations, direct calls of Index for registered series (under
\* their own tags or others) and posting lookups over sessions of one
\* database.
Next ==
    \/ \E m \in Metrics, t \in SeqTagMaps : DoWriteAt(m, 1, t, 1)
    \/ \E m \in Metrics, t \in SeqTagMaps : DoGetOrCreate(m, FromMap(t))
    \/ \E id \in DOMAIN series :
          \E t \in {series[id].t} \cup IndexTagsets :
             DoIndex(series[id].m, t, id)
    \/ \E m \in Metrics : DoGetAllSeriesIDs(m)
    \/ \E m \in Metrics, k \in TagKeys, v \in SeqTagValues :
          DoGetSeriesIDs(m, k, v)
    \/ DoReopen

Spec == Init /\ [][Next]_vars

\* ------------------------------------------------------------ range reads
\* Timestamps written and range bounds asked for: both ends of int64 and
\* values on both sides of zero.
Timestamps == {MinInt64, -2, -1, 0, 1, MaxInt64}
RangeBounds == {-1, 0, 1}
Limits == {0, 1, 2}
AllOpts == {QueryOptions(s, e, l) : s \in RangeBounds, e \in RangeBounds,
                                    l \in Limits}

\* A call of Database.Query: a read-only transaction.
QueryReturns(pts, seriesID, opts) ==
    /\ ret' = [NoRet EXCEPT !.op = "Query", !.id = seriesID, !.pts = pts,
                            !.opts = opts]
    /\ UNCHANGED <<series, postings, points, regCache, idxCache, heap, session,
                   asked, indexed, written, threads, batch, iter,
                   arg, closed, closes>>

DoQuery(seriesID, opts) == QueryReturns(Query(DB, seriesID, opts), seriesID, opts)

\* Writes of points of one series at any timestamp, and range reads of it.
NextRead ==
    \/ \E m \in Metrics, v \in Values, ts \in Timestamps :
          DoWriteAt(m, v, EmptyMap, ts)
    \/ \E id \in DOMAIN series, o \in AllOpts : DoQuery(id, o)

SpecRead == Init /\ [][NextRead]_vars

\* ---------------------------------------------------------------- Iterator
MaxIters == 1

\* Database.NewIterator: a read transaction, which sees the data entries of
\* the moment it is made, and an iterator over the series' prefix.
NewIterator(db, it, seriesID, opts) ==
    [NoIter EXCEPT !.state = "open", !.made = it.made + 1,
                   !.seriesID = seriesID, !.opts = opts, !.snap = db.points]

\* The loop of Iterator.Next from the cursor on: past the last key, or below
\* Start, the iterator is done; a key above End is skipped; a value that
\* cannot be read is the iterator's error; else the point at the cursor is
\* the current one. Limit is not looked at.
RECURSIVE iterLoop(_)
iterStep(it, ts) ==
    IF it.opts.Start > 0 /\ ts < it.opts.Start
    THEN [it |-> [it EXCEPT !.done = TRUE], ok |-> FALSE]
    ELSE IF it.opts.End > 0 /\ ts > it.opts.End
    THEN iterLoop([it EXCEPT !.keys = Tail(@)])
    ELSE IF it.keys[1] \in it.faults
    THEN [it |-> [it EXCEPT !.err = ErrRead], ok |-> FALSE]
    ELSE [it |-> [it EXCEPT !.current =
                      DataPoint(ts, DecodeDataValue(it.snap[it.keys[1]]))],
          ok |-> TRUE]

iterLoop(it) ==
    IF Len(it.keys) = 0 THEN [it |-> [it EXCEPT !.done = TRUE], ok |-> FALSE]
    ELSE iterStep(it, DecodeDataKey(it.keys[1]).ts)

\* The first call of Iterator.Next: the Seek as Query does it, then the loop.
\* The prefix, the seek key and the iterator after the Seek are values fixed
\* before the loop runs (each drawn from the set of that one value).
iterSeek(it, prefix, seekKey) ==
    [it EXCEPT !.started = TRUE,
               !.keys = SeekKeys([points |-> it.snap], prefix, seekKey)]
iterFirst(it) ==
    CHOOSE r \in {iterLoop(x) :
                     x \in {iterSeek(it, prefix, seekKey) :
                               prefix \in {DataKeyPrefix(it.seriesID)},
                               seekKey \in {SeekKey(it.seriesID, it.opts)}}} :
        TRUE

\* Iterator.Next that does not look at done and err.
IterNextNoDone(it) ==
    IF ~it.started THEN iterFirst(it)
    ELSE IF Len(it.keys) = 0 THEN [it |-> it, ok |-> FALSE]
    ELSE iterLoop([it EXCEPT !.keys = Tail(@)])

\* Iterator.Next: the first call seeks as Query does, a later one moves the
\* cursor by one key.
IterNext(it) ==
    IF it.done \/ it.err /= Nil THEN [it |-> it, ok |-> FALSE]
    ELSE IF ~it.started THEN iterFirst(it)
    ELSE iterLoop([it EXCEPT !.keys = Tail(@)])

\* Iterator.Value: the current point.
IterValue(it) == it.current

IterUnchanged ==
    UNCHANGED <<series, postings, points, regCache, idxCache, heap, session,
                asked, indexed, written, threads, batch, arg, closed, closes>>

DoNewIterator(seriesID, opts) ==
    /\ iter.state /= "open"
    /\ iter.made < MaxIters
    /\ iter' = NewIterator(DB, iter, seriesID, opts)
    /\ ret' = [NoRet EXCEPT !.op = "NewIterator", !.id = seriesID,
                            !.opts = opts]
    /\ IterUnchanged

\* A turn of `for it.Next() { out = append(out, it.Value()) }`.
IterNextReturns(r) ==
    /\ iter' = IF r.ok THEN [r.it EXCEPT !.out = Append(@, IterValue(r.it))]
               ELSE r.it
    /\ ret' = [NoRet EXCEPT !.op = "Next", !.id = iter.seriesID,
                            !.opts = iter.opts, !.first = r.ok]
    /\ IterUnchanged

DoIterNext ==
    /\ iter.state = "open"
    /\ IterNextReturns(IterNext(iter))

\* Iterator.Close: the iterator and its transaction are released.
DoIterClose ==
    /\ iter.state = "open"
    /\ iter' = [iter EXCEPT !.state = "closed"]
    /\ ret' = [NoRet EXCEPT !.op = "Close", !.id = iter.seriesID]
    /\ IterUnchanged

IterTimestamps == {-1, 1, 2}

\* Writes of points of one series, and one iterator over it.
NextIter ==
    \/ \E m \in Metrics, v \in Values, ts \in IterTimestamps :
          DoWriteAt(m, v, EmptyMap, ts)
    \/ \E id \in DOMAIN series, o \in AllOpts : DoNewIterator(id, o)
    \/ DoIterNext
    \/ DoIterClose

SpecIter == Init /\ [][NextIter]_vars

\* Calls of Next on one iterator, Value after each.
MaxNexts == 6
ExhaustOpts == {QueryOptions(s, e, 0) : s \in {0, 1}, e \in {0, 1}}
\* The timestamps of the points whose value the store fails to read.
FailingReads == {{}, {1}, {2}}

\* Database.NewIterator on a store that fails to read the values of the
\* points at some timestamps.
DoNewIteratorFaults(seriesID, opts, failing) ==
    /\ iter.state /= "open"
    /\ iter.made < MaxIters
    /\ iter' = [NewIterator(DB, iter, seriesID, opts) EXCEPT
                   !.faults = {EncodeDataKey(seriesID, ts) : ts \in failing}]
    /\ ret' = [NoRet EXCEPT !.op = "NewIterator", !.id = seriesID,
                            !.opts = opts]
    /\ IterUnchanged

\* A call of Next, and of Value after it.
NextCallReturns(r) ==
    /\ iter' = [r.it EXCEPT !.calls = Append(@, [ok |-> r.ok,
                                                 value |-> IterValue(r.it)])]
    /\ ret' = [NoRet EXCEPT !.op = "Next", !.id = iter.seriesID,
                            !.opts = iter.opts, !.first = r.ok]
    /\ IterUnchanged

DoNextCall ==
    /\ iter.state = "open"
    /\ Len(iter.calls) < MaxNexts
    /\ NextCallReturns(IterNext(iter))

\* Writes of points of one series, and the calls of Next and Value on one
\* iterator over it, until the caller closes it.
NextExhaust ==
    \/ \E m \in Metrics, ts \in IterTimestamps : DoWriteAt(m, 1, EmptyMap, ts)
    \/ \E id \in DOMAIN series, o \in ExhaustOpts, failing \in FailingReads :
          DoNewIteratorFaults(id, o, failing)
    \/ DoNextCall
    \/ DoIterClose

SpecExhaust == Init /\ [][NextExhaust]_vars

\* The caller goes on calling Next while the iterator is open.
SpecExhaustFair == SpecExhaust /\ WF_vars(DoNextCall)

\* --------------------------------------------------------------- Aggregate
AggAvg == 0
AggSum == 1
AggMin == 2
AggMax == 3
AggCount == 4

Bucket(ts, value, count) == [Timestamp |-> ts, Value |-> value, Count |-> count]
AggregateOptions(fn, bucketSize) == [Func |-> fn, BucketSize |-> bucketSize]

\* float64 values are whole numbers with MantissaBits significant bits: a
\* whole number up to MaxExact in magnitude is a float64, a greater one is
\* rounded to the nearest multiple of its unit in the last place (to the even
\* multiple of the two nearest), as IEEE 754 addition rounds.
MantissaBits == 3
MaxExact == Pow2(MantissaBits)
RECURSIVE Ulp(_, _)
Ulp(x, u) == IF x <= MaxExact * u THEN u ELSE Ulp(x, 2 * u)
roundTo(q, r, u) ==
    IF 2 * r < u THEN q * u
    ELSE IF 2 * r > u THEN (q + 1) * u
    ELSE IF q % 2 = 0 THEN q * u ELSE (q + 1) * u
roundAbs(x, u) == roundTo(x \div u, x % u, u)
RoundFloat(x) == IF x < 0 THEN -roundAbs(-x, Ulp(-x, 1)) ELSE roundAbs(x, Ulp(x, 1))

\* A float64 that is a quotient of two integers, as the fraction in lowest
\* terms (d > 0).
RECURSIVE GCD(_, _)
GCD(a, b) == IF b = 0 THEN a ELSE GCD(b, a % b)
Abs(x) == IF x < 0 THEN -x ELSE x
reduce(n, d, g) == [num |-> n \div g, den |-> d \div g]
Float(n, d) == reduce(n, d, GCD(Abs(n), d))

\* Go's x / y on integers with y > 0: the quotient truncated toward zero.
TruncDiv(x, y) == IF x >= 0 THEN x \div y ELSE -((-x) \div y)

\* The zero accumulator, accumulator.add and accumulator.compute.
accumulator == [sum |-> 0, min |-> 0, max |-> 0, count |-> 0]
add(a, v) ==
    [sum |-> RoundFloat(a.sum + v),
     min |-> IF a.count = 0 \/ v < a.min THEN v ELSE a.min,
     max |-> IF a.count = 0 \/ v > a.max THEN v ELSE a.max,
     count |-> a.count + 1]
compute(a, fn) ==
    IF fn = AggAvg THEN (IF a.count = 0 THEN Float(0, 1) ELSE Float(a.sum, a.count))
    ELSE IF fn = AggSum THEN Float(a.sum, 1)
    ELSE IF fn = AggMin THEN Float(a.min, 1)
    ELSE IF fn = AggMax THEN Float(a.max, 1)
    ELSE IF fn = AggCount THEN Float(a.count, 1)
    ELSE Float(0, 1)

\* The key of a bucket as the timestamp of the point itself.
bucketKeyExact(ts, bucketSize) == ts

\* The key of the bucket of a point: (p.Timestamp / BucketSize) * BucketSize.
bucketKey(ts, bucketSize) == TruncDiv(ts, bucketSize) * bucketSize

\* The loop of Aggregate over the points: the map from bucket keys to
\* accumulators.
RECURSIVE accumulate(_, _, _)
accumulateAt(pts, bucketSize, buckets, key) ==
    accumulate(Tail(pts), bucketSize,
               Put(buckets, key,
                   add(IF key \in DOMAIN buckets THEN buckets[key]
                       ELSE accumulator, pts[1].Value)))
accumulate(pts, bucketSize, buckets) ==
    IF Len(pts) = 0 THEN buckets
    ELSE accumulateAt(pts, bucketSize, buckets,
                      bucketKey(pts[1].Timestamp, bucketSize))

\* sortBuckets on the buckets of the map: ascending by Timestamp.
RECURSIVE sortBuckets(_, _)
sortBucketsFrom(buckets, fn, k) ==
    <<Bucket(k, compute(buckets[k], fn), buckets[k].count)>>
        \o sortBuckets([x \in DOMAIN buckets \ {k} |-> buckets[x]], fn)
sortBuckets(buckets, fn) ==
    IF DOMAIN buckets = {} THEN <<>>
    ELSE sortBucketsFrom(buckets, fn,
                         CHOOSE k \in DOMAIN buckets :
                             \A x \in DOMAIN buckets : k <= x)

\* Aggregate: nil for no points or a bucket size <= 0, else the buckets of
\* the points.
Aggregate(pts, opts) ==
    IF Len(pts) = 0 \/ opts.BucketSize <= 0 THEN <<>>
    ELSE sortBuckets(accumulate(pts, opts.BucketSize, EmptyMap), opts.Func)

MaxAggPoints == 3
AggTimestamps == {MinInt64, -3, 0, 2, MaxInt64}
BucketSizes == {-1, 0, 2, 3}
AggFuncs == {AggAvg, AggSum, AggMin, AggMax, AggCount}
AggValues == {1, 2, MaxExact, -MaxExact}
AggPoints == {DataPoint(ts, v) : ts \in AggTimestamps, v \in AggValues}
PointLists == UNION {[1..n -> AggPoints] : n \in 0..MaxAggPoints}

\* A call of Aggregate(points, opts) with the argument of the run.
DoAggregate ==
    /\ arg \in PointLists \X {AggregateOptions(fn, w) :
                                 fn \in AggFuncs, w \in BucketSizes}
    /\ ret' = [NoRet EXCEPT !.op = "Aggregate", !.pts = arg[1],
                            !.aggOpts = arg[2],
                            !.buckets = Aggregate(arg[1], arg[2])]
    /\ UNCHANGED <<series, postings, points, regCache, idxCache, heap, session,
                   asked, indexed, written, threads, batch, iter,
                   arg, closed, closes>>

NextAggregate == DoAggregate

\* Aggregate on any list of points and any options.
InitAggregate ==
    /\ InitDB
    /\ arg \in PointLists \X {AggregateOptions(fn, w) :
                                 fn \in AggFuncs, w \in BucketSizes}

SpecAggregate == InitAggregate /\ [][NextAggregate]_vars

\* ---------------------------------------------------------- AggregateQuery
ErrKeyNotFound == "ErrKeyNotFound"

\* SeriesRegistry.Get: the SeriesMeta of a series ID.
Get(db, id) ==
    IF id \in db.faults.meta
    THEN [meta |-> SeriesMeta(<<>>, <<>>), err |-> ErrRead]
    ELSE IF id \in DOMAIN db.series THEN [meta |-> db.series[id], err |-> Nil]
    ELSE [meta |-> SeriesMeta(<<>>, <<>>), err |-> ErrKeyNotFound]

\* roaring64's Iterator: the IDs of a bitmap in ascending order.
RECURSIVE Ascending(_)
ascendingFrom(ids, x) == <<x>> \o Ascending(ids \ {x})
Ascending(ids) ==
    IF ids = {} THEN <<>>
    ELSE ascendingFrom(ids, CHOOSE x \in ids : \A y \in ids : x <= y)

\* buildGroupKey: k=tags.Get(k), for every group-by key in turn.
RECURSIVE buildGroupKey(_, _)
buildGroupKey(groupBy, tags) ==
    IF Len(groupBy) = 0 THEN <<>>
    ELSE groupBy[1] \o <<"=">> \o TagsetGet(tags, groupBy[1]) \o <<",">>
            \o buildGroupKey(Tail(groupBy), tags)

\* extractGroupTags: the map from each group-by key to tags.Get of it.
extractGroupTags(groupBy, tags) ==
    [k \in {groupBy[i] : i \in DOMAIN groupBy} |-> TagsetGet(tags, k)]

\* An AggregateResult; series is history, the series whose points it holds.
AggregateResult(tags, buckets, ids) ==
    [Tags |-> tags, Buckets |-> buckets, series |-> ids]

\* Database.Query returns an error: the store fails to read the value of a
\* data entry when item.Value is called, which is for the entries whose points
\* Query returns; a series of which no value is read gives no error.
QueryFails(db, seriesID, opts) ==
    seriesID \in db.faults.data /\ Len(Query(db, seriesID, opts)) > 0

\* executeNoGroupBy: the points of all the series, bucketed once.
RECURSIVE allPoints(_, _, _)
allPoints(db, sids, opts) ==
    IF Len(sids) = 0 THEN <<>>
    ELSE Query(db, sids[1], opts) \o allPoints(db, Tail(sids), opts)

executeNoGroupBy(db, ids, opts, aggOpts) ==
    IF \E id \in ids : QueryFails(db, id, opts)
    THEN [results |-> EmptyMap, err |-> ErrRead]
    ELSE [results |->
             [k \in {<<>>} |->
                 AggregateResult(EmptyMap,
                                 Aggregate(allPoints(db, Ascending(ids), opts),
                                           aggOpts),
                                 ids)],
          err |-> Nil]

\* executeWithGroupBy, the loop over the series: the map from group keys to
\* groupAccumulators; a series whose SeriesMeta cannot be read is skipped,
\* and an error of Database.Query ends the loop.
RECURSIVE groupLoop(_, _, _, _, _)
\* groupAdd that sets the points of the group in place of appending to them.
groupAddReplace(groups, key, newTags, pts, sid) ==
    Put(groups, key, [tags |-> newTags, points |-> pts, series |-> {sid}])

groupAdd(groups, key, newTags, pts, sid) ==
    Put(groups, key,
        IF key \in DOMAIN groups
        THEN [groups[key] EXCEPT !.points = @ \o pts, !.series = @ \cup {sid}]
        ELSE [tags |-> newTags, points |-> pts, series |-> {sid}])

\* groupStep that puts a series whose SeriesMeta cannot be read into the
\* group of the series without tags.
groupStepNoSkip(db, sids, opts, groupBy, groups, g) ==
    groupLoop(db, Tail(sids), opts, groupBy,
              groupAdd(groups, buildGroupKey(groupBy, g.meta.t),
                       extractGroupTags(groupBy, g.meta.t),
                       Query(db, sids[1], opts), sids[1]))

groupStep(db, sids, opts, groupBy, groups, g) ==
    IF g.err /= Nil THEN groupLoop(db, Tail(sids), opts, groupBy, groups)
    ELSE IF QueryFails(db, sids[1], opts)
    THEN [groups |-> EmptyMap, err |-> ErrRead]
    ELSE groupLoop(db, Tail(sids), opts, groupBy,
                   groupAdd(groups, buildGroupKey(groupBy, g.meta.t),
                            extractGroupTags(groupBy, g.meta.t),
                            Query(db, sids[1], opts), sids[1]))

groupLoop(db, sids, opts, groupBy, groups) ==
    IF Len(sids) = 0 THEN [groups |-> groups, err |-> Nil]
    ELSE groupStep(db, sids, opts, groupBy, groups, Get(db, sids[1]))

\* executeWithGroupBy, the results: the buckets of every group.
groupResults(groups, aggOpts) ==
    [k \in DOMAIN groups |->
        AggregateResult(groups[k].tags, Aggregate(groups[k].points, aggOpts),
                        groups[k].series)]

\* executeWithGroupBy after the loop has returned l.
groupedResults(l, aggOpts) ==
    IF l.err /= Nil THEN [results |-> EmptyMap, err |-> l.err]
    ELSE [results |-> groupResults(l.groups, aggOpts), err |-> Nil]

executeWithGroupBy(db, ids, opts, groupBy, aggOpts) ==
    groupedResults(groupLoop(db, Ascending(ids), opts, groupBy, EmptyMap),
                   aggOpts)

\* AggregateQuery.Execute after resolveFilter has returned r: the results by
\* group key (the slice returned holds them in the order of a Go map).
aggregated(r, e) ==
    [db |-> r.db, err |-> e.err, ids |-> r.bm.ids, results |-> e.results]

aggregateOn(r, opts, groupBy, aggOpts) ==
    IF r.err /= Nil
    THEN [db |-> r.db, err |-> r.err, ids |-> r.bm.ids, results |-> EmptyMap]
    ELSE IF Len(groupBy) = 0
    THEN aggregated(r, executeNoGroupBy(r.db, r.bm.ids, opts, aggOpts))
    ELSE aggregated(r, executeWithGroupBy(r.db, r.bm.ids, opts, groupBy,
                                          aggOpts))

AggregateExecute(db, metric, f, opts, groupBy, aggOpts) ==
    aggregateOn(resolveFilter(db, metric, f), opts, groupBy, aggOpts)

\* ---------------------------------------------------------- filter queries
\* Filter trees: a tag test, or an And or Or of two tag tests.
TagFilters == {TagFilter(k, v) : k \in TagKeys, v \in TagValues}
Filters ==
    {NoFilter} \cup TagFilters
        \cup {AndFilter(l, r) : l \in TagFilters, r \in TagFilters}
        \cup {OrFilter(l, r) : l \in TagFilters, r \in TagFilters}

\* A call of NewQuery(db, metric).Where(f).ExecuteRaw() that returns r.
ExecuteRawReturns(r, metric, f) ==
    /\ SetDB(r.db)
    /\ ret' = [NoRet EXCEPT !.op = "ExecuteRaw", !.metric = metric,
                            !.filter = f, !.err = r.err, !.ids = r.bm.ids]
    /\ UNCHANGED <<session, asked, indexed, written, threads, batch, iter,
                   arg, closed, closes>>

DoExecuteRaw(metric, f) == ExecuteRawReturns(ExecuteRaw(DB, metric, f), metric, f)

\* Writes of series of one metric in one session, and filter queries of it.
NextQuery ==
    \/ \E m \in Metrics, t \in TagMaps : DoWriteAt(m, 1, t, 1)
    \/ \E m \in Metrics, f \in Filters : DoExecuteRaw(m, f)

SpecQuery == Init /\ [][NextQuery]_vars

\* ---------------------------------------------------------------- Execute
ExecTagMaps == {t \in TagMaps : DOMAIN t \subseteq {<<"a">>}}
ExecTimestamps == {1, 2}
ExecFilters ==
    {NoFilter, TagFilter(<<"a">>, <<"c">>),
     OrFilter(TagFilter(<<"a">>, <<"c">>), TagFilter(<<"a">>, <<"b", "c">>)),
     AndFilter(TagFilter(<<"a">>, <<"c">>), TagFilter(<<"a">>, <<"b", "c">>))}
ExecOpts == {NoOpts, QueryOptions(2, 0, 0), QueryOptions(0, 1, 0),
             QueryOptions(0, 0, 1)}

\* A call of NewQuery(db, metric).Where(f).TimeRange(..).Limit(..).Execute()
\* that returns r; ids is the bitmap resolveFilter returned to it.
ExecuteReturns(r, ids, metric, f, opts) ==
    /\ SetDB(r.db)
    /\ ret' = [NoRet EXCEPT !.op = "Execute", !.metric = metric, !.filter = f,
                            !.opts = opts, !.err = r.err, !.ids = ids,
                            !.results = r.results]
    /\ UNCHANGED <<session, asked, indexed, written, threads, batch, iter,
                   arg, closed, closes>>

DoExecute(metric, f, opts) ==
    ExecuteReturns(Execute(DB, metric, f, opts),
                   resolveFilter(DB, metric, f).bm.ids, metric, f, opts)

\* Writes of series of one metric at two timestamps, and queries of it with
\* filters, time ranges and limits.
NextExecute ==
    \/ \E m \in Metrics, t \in ExecTagMaps, ts \in ExecTimestamps :
          DoWriteAt(m, 1, t, ts)
    \/ \E m \in Metrics, f \in ExecFilters, o \in ExecOpts : DoExecute(m, f, o)

SpecExecute == Init /\ [][NextExecute]_vars

\* ------------------------------------------------------- failing writes
WriteFaults == {[NoFaults EXCEPT !.index = TRUE], [NoFaults EXCEPT !.point = TRUE]}

\* A call of WriteAt during which a commit of the store fails.
DoWriteAtFaults(metric, value, tags, timestamp, faults) ==
    WriteAtReturns(WriteAtWithTagset([DB EXCEPT !.faults = faults], metric,
                                     value, FromMap(tags), timestamp),
                   metric, value, FromMap(tags), timestamp)

\* Writes of series of one metric in one session, some of which fail in the
\* commit of persist or of the data point, and are tried again; direct calls
\* of Index for a registered series.
NextWriteFaults ==
    \/ \E m \in Metrics, t \in ExecTagMaps : DoWriteAt(m, 1, t, 1)
    \/ \E id \in DOMAIN series : DoIndex(series[id].m, series[id].t, id)
    \/ \E m \in Metrics, t \in ExecTagMaps, x \in WriteFaults :
          DoWriteAtFaults(m, 1, t, 1, x)
    \/ \E m \in Metrics : DoGetAllSeriesIDs(m)

SpecWriteFaults == Init /\ [][NextWriteFaults]_vars

\* ------------------------------------------------------- set operations
\* Intersect and Union of any number of bitmaps.  The bitmap objects are the
\* entries of a list objs, a bitmap is its place in the list, and a new
\* object is appended.
MaxBitmaps == 3
SetIDs == {1, 2}

\* roaring64.New().
New(objs) == [objs |-> Append(objs, {}), bm |-> Len(objs) + 1]
\* Bitmap.Clone.
Clone(objs, bm) == [objs |-> Append(objs, objs[bm]), bm |-> Len(objs) + 1]
\* result.And(bm) and result.Or(bm): result is written, bm is read.
And(objs, result, bm) == [objs EXCEPT ![result] = @ \cap objs[bm]]
Or(objs, result, bm) == [objs EXCEPT ![result] = @ \cup objs[bm]]

\* for _, bm := range bitmaps[1:] { result.And(bm) }
RECURSIVE andLoop(_, _)
andLoop(r, bitmaps) ==
    IF Len(bitmaps) = 0 THEN r
    ELSE andLoop([r EXCEPT !.objs = And(r.objs, r.bm, bitmaps[1])],
                 Tail(bitmaps))

RECURSIVE orLoop(_, _)
orLoop(r, bitmaps) ==
    IF Len(bitmaps) = 0 THEN r
    ELSE orLoop([r EXCEPT !.objs = Or(r.objs, r.bm, bitmaps[1])],
                Tail(bitmaps))

\* Intersect with the first bitmap in place of a clone of it.
IntersectInPlace(objs, bitmaps) ==
    IF Len(bitmaps) = 0 THEN New(objs)
    ELSE andLoop([objs |-> objs, bm |-> bitmaps[1]], Tail(bitmaps))

\* Intersect(bitmaps ...*roaring64.Bitmap).
IntersectOf(objs, bitmaps) ==
    IF Len(bitmaps) = 0 THEN New(objs)
    ELSE IF Len(bitmaps) = 1 THEN Clone(objs, bitmaps[1])
    ELSE andLoop(Clone(objs, bitmaps[1]), Tail(bitmaps))

\* Union(bitmaps ...*roaring64.Bitmap).
UnionOf(objs, bitmaps) ==
    IF Len(bitmaps) = 0 THEN New(objs)
    ELSE IF Len(bitmaps) = 1 THEN Clone(objs, bitmaps[1])
    ELSE orLoop(Clone(objs, bitmaps[1]), Tail(bitmaps))

SetOp(op, objs, bitmaps) ==
    IF op = "Intersect" THEN IntersectOf(objs, bitmaps)
    ELSE UnionOf(objs, bitmaps)

\* Two bitmap objects with any contents, and argument lists of them, in
\* which an object may come more than once.
SetObjs == [1..2 -> SUBSET SetIDs]
SetArgs == UNION {[1..n -> 1..2] : n \in 0..MaxBitmaps}

\* A call of Intersect or Union.
DoSetOp ==
    /\ arg \in [op : {"Intersect", "Union"}, objs : SetObjs, bitmaps : SetArgs]
    /\ ret.op = "none"
    /\ ret' = [NoRet EXCEPT !.op = arg.op, !.input = arg,
                            !.results = SetOp(arg.op, arg.objs, arg.bitmaps)]
    /\ UNCHANGED <<series, postings, points, regCache, idxCache, heap, session,
                   asked, indexed, written, threads, batch, iter,
                   arg, closed, closes>>

NextSetOps == DoSetOp

InitSetOps ==
    /\ InitDB
    /\ arg \in [op : {"Intersect", "Union"}, objs : SetObjs, bitmaps : SetArgs]

SpecSetOps == InitSetOps /\ [][NextSetOps]_vars

\* ------------------------------------------------------------------- Close
\* The calls of Close of a run that reach the store.
MaxCloses == 2
\* What badger's DB.Close returns: nil or an error.
ErrStoreClose == "store close failed"
StoreCloseResults == {Nil, ErrStoreClose}

\* Database.Close without the test of d.closed.
CloseUnchecked(d, storeErr) ==
    [closed |-> TRUE, closes |-> d.closes + 1, err |-> storeErr]

\* Database.Close, under d.mu: nothing when d.closed is set, else set it and
\* close the store, which returns storeErr.
Close(d, storeErr) ==
    IF d.closed THEN [closed |-> d.closed, closes |-> d.closes, err |-> Nil]
    ELSE [closed |-> TRUE, closes |-> d.closes + 1, err |-> storeErr]

\* A call of Close that returns r.  History: first is whether the database
\* was open when it was called.
CloseReturns(r) ==
    /\ closed' = r.closed
    /\ closes' = r.closes
    /\ ret' = [NoRet EXCEPT !.op = "Close", !.err = r.err, !.first = ~closed]
    /\ UNCHANGED <<series, postings, points, regCache, idxCache, heap, session,
                   asked, indexed, written, threads, batch, iter, arg>>

DoClose(storeErr) ==
    /\ closes < MaxCloses
    /\ CloseReturns(Close([closed |-> closed, closes |-> closes], storeErr))

\* Open on the directory of a closed database: a new Database on a new
\* store handle, with empty caches.
DoOpen ==
    /\ closed
    /\ session < MaxSessions
    /\ session' = session + 1
    /\ regCache' = {}
    /\ idxCache' = EmptyMap
    /\ heap' = EmptyMap
    /\ closed' = FALSE
    /\ closes' = 0
    /\ ret' = [NoRet EXCEPT !.op = "Open"]
    /\ UNCHANGED <<series, postings, points, asked, indexed, written, threads,
                   batch, iter, arg>>

CloseTagMaps == {t \in TagMaps : DOMAIN t \subseteq {<<"a">>}}

\* Writes to an open database, calls of Close at any time, and Open after
\* a Close.
NextClose ==
    \/ /\ ~closed
       /\ \E m \in Metrics, t \in CloseTagMaps : DoWriteAt(m, 1, t, 1)
    \/ \E e \in StoreCloseResults : DoClose(e)
    \/ DoOpen

SpecClose == Init /\ [][NextClose]_vars

\* ------------------------------------------------------------------ misses
\* Metrics looked up: the one written and one never written.
MissMetrics == Metrics \cup {<<"b">>}
\* Series IDs read: the registered ones and two that no series has.
MissIDs == {0, WordMod - 1}
MissTimestamps == {-1, 1}
\* Tag maps written and tag keys looked up: one key, so that a value of it
\* can be one that no series carries.
MissKeys == {<<"a">>}
MissTagMaps == {t \in TagMaps : DOMAIN t \subseteq MissKeys}
MissOpts == {NoOpts, QueryOptions(0, 0, 1), QueryOptions(1, 1, 0)}

\* Writes of series of one metric, and reads and lookups of what was written
\* and of what was not, over sessions.
NextMiss ==
    \/ \E m \in Metrics, t \in MissTagMaps, ts \in MissTimestamps :
          DoWriteAt(m, 1, t, ts)
    \/ \E id \in MissIDs \cup DOMAIN series, o \in MissOpts : DoQuery(id, o)
    \/ \E m \in MissMetrics : DoGetAllSeriesIDs(m)
    \/ \E m \in Metrics, k \in MissKeys, v \in TagValues :
          DoGetSeriesIDs(m, k, v)
    \/ \E m \in Metrics, k \in MissKeys, v \in TagValues :
          DoExecuteRaw(m, TagFilter(k, v))
    \/ DoReopen

SpecMiss == Init /\ [][NextMiss]_vars

\* ------------------------------------------------------ aggregate queries
\* Tag values with the separators of group keys in them.
GroupTagMaps ==
    {EmptyMap,
     [k \in {<<"a">>} |-> <<"c">>],
     [k \in {<<"a">>} |-> <<",", "b", "=">>],
     [k \in {<<"b">>} |-> <<"c">>],
     [k \in {<<"b">>} |-> <<",", "b", "=">>],
     [k \in {<<"a">>, <<"b">>} |-> <<"c">>]}
GroupBys == {<<>>, <<<<"a">>>>, <<<<"a">>, <<"b">>>>}
GroupFilters == {NoFilter, TagFilter(<<"a">>, <<"c">>)}
GroupOpts == {NoOpts, QueryOptions(0, 0, 1)}
GroupAggOpts == {AggregateOptions(fn, w) : fn \in {AggCount, AggSum}, w \in {0, 2}}

\* The orders a Go map gives the results in.
ResultOrders(results) ==
    {[i \in 1..Cardinality(DOMAIN results) |-> results[f[i]]] :
        f \in {g \in [1..Cardinality(DOMAIN results) -> DOMAIN results] :
                  \A k \in DOMAIN results :
                      \E i \in 1..Cardinality(DOMAIN results) : g[i] = k}}

\* A call of AggregateQuery.Execute that returns r, its results in one of the
\* orders of the map.
AggregateQueryReturns(r, metric, f, opts, groupBy, aggOpts) ==
    /\ SetDB(r.db)
    /\ \E results \in ResultOrders(r.results) :
          ret' = [NoRet EXCEPT !.op = "AggregateQuery", !.metric = metric,
                               !.filter = f, !.err = r.err, !.ids = r.ids,
                               !.opts = opts, !.groupBy = groupBy,
                               !.aggOpts = aggOpts, !.results = results,
                               !.input = r.db.faults]
    /\ UNCHANGED <<session, asked, indexed, written, threads, batch, iter,
                   arg, closed, closes>>

DoAggregateQuery(metric, f, opts, groupBy, aggOpts) ==
    AggregateQueryReturns(AggregateExecute(DB, metric, f, opts, groupBy, aggOpts),
                          metric, f, opts, groupBy, aggOpts)

\* Writes of points of series of one metric, and aggregate queries of it.
NextAggregateQuery ==
    \/ \E m \in Metrics, t \in GroupTagMaps, ts \in {-1, 1} :
          DoWriteAt(m, 1, t, ts)
    \/ \E m \in Metrics, f \in GroupFilters, o \in GroupOpts, g \in GroupBys,
          a \in GroupAggOpts : DoAggregateQuery(m, f, o, g, a)

SpecAggregateQuery == Init /\ [][NextAggregateQuery]_vars

\* ------------------------------------------- aggregate queries and faults
FaultTagMaps ==
    {EmptyMap, [k \in {<<"a">>} |-> <<"c">>], [k \in {<<"a">>} |-> <<"b", "c">>]}
FaultGroupBys == {<<>>, <<<<"a">>>>}
\* What the store may fail to read during one call.
Faults == [meta : SUBSET DOMAIN series, data : SUBSET DOMAIN series,
           index : {FALSE}, point : {FALSE}]

\* A call of AggregateQuery.Execute during which the store fails to read
\* what faults names.
DoAggregateQueryFaults(metric, opts, groupBy, aggOpts, faults) ==
    AggregateQueryReturns(
        AggregateExecute([DB EXCEPT !.faults = faults], metric, NoFilter,
                         opts, groupBy, aggOpts),
        metric, NoFilter, opts, groupBy, aggOpts)

\* The time ranges of the queries: all points, and a range above every
\* timestamp written, in which no value is read.
FaultOpts == {NoOpts, QueryOptions(3, 0, 0)}

\* Writes of points of series of one metric, and aggregate queries of it
\* during which reads of the store fail.
NextFaults ==
    \/ \E m \in Metrics, t \in FaultTagMaps, ts \in {1, 2} :
          DoWriteAt(m, 1, t, ts)
    \/ \E m \in Metrics, o \in FaultOpts, g \in FaultGroupBys, w \in {0, 2},
          x \in Faults :
          DoAggregateQueryFaults(m, o, g, AggregateOptions(AggCount, w), x)

SpecFaults == Init /\ [][NextFaults]_vars

\* ------------------------------------------------------------ ParseFilter
\* Filter strings are sequences of characters. Token types of the lexer.
tokenEOF == 0
tokenIdent == 1
tokenColon == 2
tokenAnd == 3
tokenOr == 4
tokenLParen == 5
tokenRParen == 6

token(typ, val) == [typ |-> typ, val |-> val]

LowerCase == <<"a", "b", "c", "d", "e", "f", "g", "h", "i", "j", "k", "l", "m",
               "n", "o", "p", "q", "r", "s", "t", "u", "v", "w", "x", "y", "z">>
UpperCase == <<"A", "B", "C", "D", "E", "F", "G", "H", "I", "J", "K", "L", "M",
               "N", "O", "P", "Q", "R", "S", "T", "U", "V", "W", "X", "Y", "Z">>
Letters == {LowerCase[i] : i \in DOMAIN LowerCase}
              \cup {UpperCase[i] : i \in DOMAIN UpperCase}
Digits == {"0", "1", "2", "3", "4", "5", "6", "7", "8", "9"}

\* strings.ToUpper on the characters above.
toUpperChar(ch) ==
    IF \E i \in DOMAIN LowerCase : LowerCase[i] = ch
    THEN UpperCase[CHOOSE i \in DOMAIN LowerCase : LowerCase[i] = ch]
    ELSE ch
ToUpper(str) == [i \in DOMAIN str |-> toUpperChar(str[i])]

\* A byte that is no printable ASCII character is written by its value.
\* unicode.IsSpace(rune(ch)) on a byte of the input: the white space of
\* Latin-1, which is '\t', '\n', '\v', '\f', '\r', ' ', U+0085 and U+00A0.
IsSpace(ch) == ch \in {" ", "\t", "\n", "0x0B", "\f", "\r", "0x85", "0xA0"}

\* The UTF-8 encodings of the runes unicode.IsSpace accepts, which are the
\* white space strings.TrimSpace removes; a byte that is not part of a valid
\* encoding is the rune U+FFFD, which is no white space.
SpaceRunes ==
    {<<" ">>, <<"\t">>, <<"\n">>, <<"0x0B">>, <<"\f">>, <<"\r">>,
     <<"0xC2", "0x85">>, <<"0xC2", "0xA0">>, <<"0xE1", "0x9A", "0x80">>,
     <<"0xE2", "0x80", "0xA8">>, <<"0xE2", "0x80", "0xA9">>,
     <<"0xE2", "0x80", "0xAF">>, <<"0xE2", "0x81", "0x9F">>,
     <<"0xE3", "0x80", "0x80">>}
        \cup {<<"0xE2", "0x80", b>> :
                 b \in {"0x80", "0x81", "0x82", "0x83", "0x84", "0x85", "0x86",
                        "0x87", "0x88", "0x89", "0x8A"}}

\* strings.TrimSpace(input) == "": the input from pos on is white space
\* runes only.
RECURSIVE blankFrom(_, _)
blankFrom(input, pos) ==
    \/ pos >= Len(input)
    \/ \E w \in SpaceRunes :
          /\ pos + Len(w) <= Len(input)
          /\ SubSeq(input, pos + 1, pos + Len(w)) = w
          /\ blankFrom(input, pos + Len(w))

isIdentStart(ch) == ch \in Letters \/ ch = "_" \/ ch \in Digits
isIdentChar(ch) == isIdentStart(ch) \/ ch \in Digits \/ ch = "-" \/ ch = "."

\* lexer.skipWhitespace: pos after the white space from pos on (pos counts
\* the bytes before the cursor, as in the code).
RECURSIVE skipWhitespace(_, _)
skipWhitespace(input, pos) ==
    IF pos < Len(input) /\ IsSpace(input[pos + 1])
    THEN skipWhitespace(input, pos + 1)
    ELSE pos

\* lexer.scanIdent: the end of the identifier, then AND, OR or an identifier.
RECURSIVE identEnd(_, _)
identEnd(input, pos) ==
    IF pos < Len(input) /\ isIdentChar(input[pos + 1])
    THEN identEnd(input, pos + 1)
    ELSE pos
identToken(val, upper) ==
    IF upper = <<"A", "N", "D">> THEN token(tokenAnd, val)
    ELSE IF upper = <<"O", "R">> THEN token(tokenOr, val)
    ELSE token(tokenIdent, val)
scanIdentTo(input, start, end) ==
    [tok |-> identToken(SubSeq(input, start + 1, end),
                        ToUpper(SubSeq(input, start + 1, end))),
     pos |-> end]
scanIdent(input, pos) == scanIdentTo(input, pos, identEnd(input, pos))

\* lexer.next: the token at the cursor and the cursor after it; a character
\* that starts no token gives tokenEOF.
nextAt(input, pos) ==
    IF pos >= Len(input) THEN [tok |-> token(tokenEOF, <<>>), pos |-> pos]
    ELSE IF input[pos + 1] = ":"
    THEN [tok |-> token(tokenColon, <<":">>), pos |-> pos + 1]
    ELSE IF input[pos + 1] = "("
    THEN [tok |-> token(tokenLParen, <<"(">>), pos |-> pos + 1]
    ELSE IF input[pos + 1] = ")"
    THEN [tok |-> token(tokenRParen, <<")">>), pos |-> pos + 1]
    ELSE IF isIdentStart(input[pos + 1]) THEN scanIdent(input, pos)
    ELSE [tok |-> token(tokenEOF, <<>>), pos |-> pos + 1]
next(input, pos) == nextAt(input, skipWhitespace(input, pos))

\* The parser: the input, the lexer's cursor and the current token.
parserAt(input, n) == [input |-> input, pos |-> n.pos, cur |-> n.tok]
newParser(input) == parserAt(input, next(input, 0))
advance(p) == parserAt(p.input, next(p.input, p.pos))

\* What a parse function returns: a filter (nil with an error), the error and
\* the parser after it.
Parsed(f, p) == [f |-> f, err |-> Nil, p |-> p]
Failed(expected, p) == [f |-> NoFilter, err |-> expected, p |-> p]

\* parser.parseTag: ident ':' ident.
parseTagValue(key, p) ==
    IF p.cur.typ /= tokenIdent THEN Failed("expected tag value", p)
    ELSE Parsed(TagFilter(key, p.cur.val), advance(p))
parseTagColon(key, p) ==
    IF p.cur.typ /= tokenColon THEN Failed("expected ':'", p)
    ELSE parseTagValue(key, advance(p))
parseTag(p) ==
    IF p.cur.typ /= tokenIdent THEN Failed("expected tag key", p)
    ELSE parseTagColon(p.cur.val, advance(p))

RECURSIVE parseExpr(_)
RECURSIVE termLoop(_)
RECURSIVE exprLoop(_)

\* parser.parseFactor: '(' expr ')' or a tag.
factorClose(r) ==
    IF r.err /= Nil THEN r
    ELSE IF r.p.cur.typ /= tokenRParen THEN Failed("expected ')'", r.p)
    ELSE Parsed(r.f, advance(r.p))
parseFactor(p) ==
    IF p.cur.typ = tokenLParen THEN factorClose(parseExpr(advance(p)))
    ELSE parseTag(p)

\* parser.parseTerm: factor (AND factor)*, joined to the left.
termJoin(left, right) ==
    IF right.err /= Nil THEN right
    ELSE termLoop(Parsed(AndFilter(left.f, right.f), right.p))
termLoop(left) ==
    IF left.err /= Nil THEN left
    ELSE IF left.p.cur.typ = tokenAnd
    THEN termJoin(left, parseFactor(advance(left.p)))
    ELSE left
parseTerm(p) == termLoop(parseFactor(p))

\* parser.parseExpr: term (OR term)*, joined to the left.
exprJoin(left, right) ==
    IF right.err /= Nil THEN right
    ELSE exprLoop(Parsed(OrFilter(left.f, right.f), right.p))
exprLoop(left) ==
    IF left.err /= Nil THEN left
    ELSE IF left.p.cur.typ = tokenOr
    THEN exprJoin(left, parseTerm(advance(left.p)))
    ELSE left
\* parseExpr whose first operand is a factor, not a term.
parseExprFactor(p) == exprLoop(parseFactor(p))

parseExpr(p) == exprLoop(parseTerm(p))

\* ParseFilter: nil and no error for a blank input, else parseExpr.
ParseFilter(input) ==
    IF blankFrom(input, 0)
    THEN Parsed(NoFilter, newParser(input))
    ELSE parseExpr(newParser(input))

\* The inputs of ParseFilter: up to MaxWords words with a space between them,
\* and the bracketed expressions of MaxWords + 2 words.
MaxWords == 5
TagWords == {<<"a", ":", "b">>, <<"b", ":", "c">>}
AndWords == {<<"A", "N", "D">>, <<"a", "n", "d">>}
OrWords == {<<"O", "R">>, <<"O", "r">>}
Words == TagWords \cup AndWords \cup OrWords
            \cup {<<"(">>, <<")">>, <<"a">>, <<"&">>}
BracketWords == {<<"a", ":", "b">>, <<"A", "N", "D">>, <<"O", "R">>,
                 <<"(">>, <<")">>}
\* Words of white space that is not a space character, and of bytes of it.
SpaceWords == {<<"0x0B">>, <<"0xA0">>, <<"0x85">>, <<"0xC2", "0xA0">>,
               <<"0xE3", "0x80", "0x80">>, <<"\t">>, <<"a", ":", "b">>}
WordLists ==
    UNION {[1..n -> Words] : n \in 0..MaxWords}
        \cup [1..(MaxWords + 2) -> BracketWords]
        \cup [1..2 -> SpaceWords]

RECURSIVE Join(_)
Join(words) ==
    IF Len(words) = 0 THEN <<>>
    ELSE IF Len(words) = 1 THEN words[1]
    ELSE words[1] \o <<" ">> \o Join(Tail(words))

\* A call of ParseFilter on the words of the argument of the run.
ParseFilterReturns(r) ==
    /\ ret' = [NoRet EXCEPT !.op = "ParseFilter", !.filter = r.f, !.err = r.err]
    /\ UNCHANGED <<series, postings, points, regCache, idxCache, heap, session,
                   asked, indexed, written, threads, batch, iter,
                   arg, closed, closes>>

DoParseFilter ==
    /\ arg \in WordLists
    /\ ParseFilterReturns(ParseFilter(Join(arg)))

NextParse == DoParseFilter

\* ParseFilter on any of the inputs.
InitParse == InitDB /\ arg \in WordLists

SpecParse == InitParse /\ [][NextParse]_vars

\* ------------------------------------------------------------ BatchWriter
\* Batch writers a run makes.
MaxBatches == 1
\* Entries a transaction of the store's WriteBatch takes before Set commits
\* it and starts the next one (the store's limit on the size of a
\* transaction; about 10^5 entries of this size with the options of Open).
BatchLimit == 2

\* What was added to a batch under a data key.
Added(metric, id, ts, value) ==
    [metric |-> metric, id |-> id, ts |-> ts, value |-> value]

\* The commit of the pending writes of a WriteBatch's transaction.
wbCommit(db, b) ==
    [db |-> [db EXCEPT !.points = Commit(@, b.pend)],
     batch |-> [b EXCEPT !.pend = EmptyMap, !.n = 0]]

\* Set on a transaction of the WriteBatch that has room.
wbSetEntry(r, key, val, a) ==
    [db |-> r.db,
     batch |-> [r.batch EXCEPT !.pend = Put(@, key, val), !.n = @ + 1,
                               !.added = Put(@, key, a)]]

\* badger.WriteBatch.Set: when the transaction is full (ErrTxnTooBig) it is
\* committed and the entry goes into a new one.
wbSet(db, b, key, val, a) ==
    IF b.n >= BatchLimit THEN wbSetEntry(wbCommit(db, b), key, val, a)
    ELSE wbSetEntry([db |-> db, batch |-> b], key, val, a)

\* BatchWriter.WriteRaw.
WriteRaw(db, b, seriesID, value, timestamp) ==
    wbSet(db, b, EncodeDataKey(seriesID, timestamp), EncodeDataValue(value),
          Added(<<>>, seriesID, timestamp, value))

\* BatchWriter.WriteAtWithTagset after GetOrCreate and Index: i is what Index
\* returned (or nothing to index).
batchPoint(i, b, metric, id, created, value, timestamp) ==
    IF i.err /= Nil
    THEN [db |-> i.db, batch |-> b, err |-> i.err, id |-> id, created |-> created]
    ELSE [db |-> wbSet(i.db, b, EncodeDataKey(id, timestamp),
                       EncodeDataValue(value),
                       Added(metric, id, timestamp, value)).db,
          batch |-> wbSet(i.db, b, EncodeDataKey(id, timestamp),
                          EncodeDataValue(value),
                          Added(metric, id, timestamp, value)).batch,
          err |-> Nil, id |-> id, created |-> created]

batchSeries(g, b, metric, value, timestamp) ==
    IF g.err /= Nil
    THEN [db |-> g.db, batch |-> b, err |-> g.err, id |-> g.id,
          created |-> g.created]
    ELSE batchPoint(IF g.created THEN Index(g.db, metric, g.tags, g.id)
                    ELSE [db |-> g.db, err |-> Nil],
                    b, metric, g.id, g.created, value, timestamp)

\* BatchWriter.WriteAtWithTagset.
BatchWriteAtWithTagset(db, b, metric, value, tagset, timestamp) ==
    batchSeries(GetOrCreate(db, metric, tagset), b, metric, value, timestamp)

\* BatchWriter.WriteAt.
BatchWriteAt(db, b, metric, value, tags, timestamp) ==
    BatchWriteAtWithTagset(db, b, metric, value, FromMap(tags), timestamp)

\* BatchWriter.Flush: the commit of what is pending.
Flush(db, b) ==
    [db |-> wbCommit(db, b).db,
     batch |-> [wbCommit(db, b).batch EXCEPT !.state = "flushed"]]

\* BatchWriter.Cancel: what is pending is discarded.
Cancel(db, b) ==
    [db |-> db, batch |-> [b EXCEPT !.state = "cancelled", !.pend = EmptyMap,
                                    !.n = 0]]

\* The series IDs WriteRaw is given and the timestamps of batch runs.
RawIDs == {0, WordMod - 1}
BatchTimestamps == {MinInt64, 0, MaxInt64}

\* History: the entry of written of what was added to a batch.
HistKey(a) == [metric |-> a.metric, id |-> a.id, ts |-> a.ts]

\* History: written after the transaction of batch b has committed.
WrittenWith(b) ==
    [w \in DOMAIN written \cup {HistKey(b.added[k]) : k \in DOMAIN b.pend} |->
        IF \E k \in DOMAIN b.pend : HistKey(b.added[k]) = w
        THEN b.added[CHOOSE k \in DOMAIN b.pend : HistKey(b.added[k]) = w].value
        ELSE written[w]]

\* A call on the BatchWriter that returns r.
BatchEffects(r, op, id, err) ==
    /\ Cardinality(DOMAIN r.db.points \cup DOMAIN r.batch.pend) <= MaxPoints
    /\ SetDB(r.db)
    /\ batch' = r.batch
    /\ written' = IF r.batch.state /= "cancelled" /\ r.batch.n <= batch.n
                  THEN WrittenWith(batch) ELSE written
    /\ ret' = [NoRet EXCEPT !.op = op, !.id = id, !.err = err]

BatchReturns(r, op, id, err) ==
    /\ BatchEffects(r, op, id, err)
    /\ UNCHANGED <<session, threads, iter, arg, closed, closes>>

\* A call of Database.NewBatchWriter.
DoNewBatchWriter ==
    /\ batch.state /= "open"
    /\ batch.made < MaxBatches
    /\ batch' = [NoBatch EXCEPT !.state = "open", !.made = batch.made + 1,
                                !.base = points]
    /\ ret' = [NoRet EXCEPT !.op = "NewBatchWriter"]
    /\ UNCHANGED <<series, postings, points, regCache, idxCache, heap, session,
                   asked, indexed, written, threads, iter, arg, closed, closes>>

\* A call of BatchWriter.WriteAt that returns r; tagset is FromMap of its
\* tags.
BatchWriteAtReturns(r, metric, tagset) ==
    /\ r.created => Cardinality(DOMAIN series) < MaxSeries
    /\ BatchReturns(r, "BatchWriteAt", r.id, r.err)
    /\ asked' = asked \cup {<<metric, tagset>>}
    /\ indexed' = IF r.created /\ r.err = Nil
                  THEN indexed \cup {[metric |-> metric, tags |-> tagset,
                                      id |-> r.id, session |-> session]}
                  ELSE indexed

DoBatchWriteAt(metric, value, tags, timestamp) ==
    /\ batch.state = "open"
    /\ BatchWriteAtReturns(BatchWriteAt(DB, batch, metric, value, tags, timestamp),
                           metric, FromMap(tags))

\* A call of BatchWriter.WriteRaw.
DoWriteRaw(seriesID, value, timestamp) ==
    /\ batch.state = "open"
    /\ BatchReturns(WriteRaw(DB, batch, seriesID, value, timestamp), "WriteRaw",
                    seriesID, Nil)
    /\ UNCHANGED <<asked, indexed, arg, closed, closes>>

\* A call of BatchWriter.Flush.
DoFlush ==
    /\ batch.state = "open"
    /\ BatchReturns(Flush(DB, batch), "Flush", 0, Nil)
    /\ UNCHANGED <<asked, indexed, arg, closed, closes>>

\* A call of BatchWriter.Cancel.
DoCancel ==
    /\ batch.state = "open"
    /\ BatchReturns(Cancel(DB, batch), "Cancel", 0, Nil)
    /\ UNCHANGED <<asked, indexed, arg, closed, closes>>

\* Batches of points of a few series, and single writes between and during
\* them.
NextBatch ==
    \/ DoNewBatchWriter
    \/ \E m \in Metrics, v \in Values : DoBatchWriteAt(m, v, EmptyMap, 0)
    \/ \E id \in RawIDs, ts \in BatchTimestamps : DoWriteRaw(id, 1, ts)
    \/ DoFlush
    \/ DoCancel
    \/ \E m \in Metrics, v \in Values : DoWriteAt(m, v, EmptyMap, 0)

SpecBatch == Init /\ [][NextBatch]_vars

\* ------------------------------------------------------ concurrent calls
\* Threads call WriteAt, the posting lookups and Execute at any time.  A step
\* of a thread is one access to the shared caches, bitmaps or store.
ErrConflict == "ErrConflict"

\* The tags of the concurrent writes and the posting keys they touch.
ConcTagMaps == {EmptyMap, [k \in {<<"a">>} |-> <<"c">>]}
ConcKeys ==
    UNION {{PostingKeys(m, FromMap(tm))[i] :
               i \in DOMAIN PostingKeys(m, FromMap(tm))} :
           m \in Metrics, tm \in ConcTagMaps}

Set(t, rec) == threads' = [threads EXCEPT ![t] = rec]
At(t, pc) == threads[t].pc = pc
StoreUnchanged == UNCHANGED <<series, postings, points, regCache, idxCache, heap>>
HistoryUnchanged ==
    UNCHANGED <<session, ret, asked, indexed, written, batch, iter,
                arg, closed, closes>>

\* A thread calls WriteAt: FromMap, then GetOrCreate sorts the tagset and
\* computes the ID.
StartWriteAt(t, metric, value, tags, timestamp) ==
    /\ At(t, "idle")
    /\ threads[t].calls < MaxCalls
    /\ Set(t, [IdleThread EXCEPT
                  !.pc = "goc_load", !.op = "WriteAt",
                  !.calls = threads[t].calls + 1, !.metric = metric,
                  !.tags = Sort(FromMap(tags)),
                  !.id = ComputeSeriesID(metric, Sort(FromMap(tags))),
                  !.value = value, !.ts = timestamp])
    /\ asked' = asked \cup {<<metric, Sort(FromMap(tags))>>}
    /\ StoreUnchanged
    /\ UNCHANGED <<session, ret, indexed, written, batch, iter, arg, closed, closes>>

\* GetOrCreate, r.cache.Load(id): a hit returns (id, false, nil).
GocLoad(t) ==
    /\ At(t, "goc_load")
    /\ IF threads[t].id \in regCache
       THEN Set(t, [threads[t] EXCEPT !.pc = "point", !.returned = TRUE])
       ELSE Set(t, [threads[t] EXCEPT !.pc = "goc_get"])
    /\ StoreUnchanged
    /\ HistoryUnchanged

\* GetOrCreate, the transaction begins and txn.Get reads the series key at
\* the transaction's read timestamp.
GocGet(t) ==
    /\ At(t, "goc_get")
    /\ Set(t, [threads[t] EXCEPT !.pc = "goc_store",
                                 !.found = threads[t].id \in DOMAIN series])
    /\ StoreUnchanged
    /\ HistoryUnchanged

\* GetOrCreate, r.cache.Store(id): after txn.Get found the key (the
\* transaction has nothing to commit and the call returns (id, false, nil)),
\* or after txn.Set and created = true.
GocStore(t) ==
    /\ At(t, "goc_store")
    /\ regCache' = regCache \cup {threads[t].id}
    /\ IF threads[t].found
       THEN Set(t, [threads[t] EXCEPT !.pc = "point", !.returned = TRUE])
       ELSE Set(t, [threads[t] EXCEPT !.pc = "goc_commit", !.created = TRUE])
    /\ UNCHANGED <<series, postings, points, idxCache, heap, arg, closed, closes>>
    /\ HistoryUnchanged

\* GetOrCreate, the commit of the transaction that read the series key and
\* set it: ErrConflict when the key was committed since the read, and then
\* GetOrCreate returns (id, created, err) and WriteAt returns err.
GocCommit(t) ==
    /\ At(t, "goc_commit")
    /\ IF threads[t].id \in DOMAIN series
       THEN /\ Set(t, [threads[t] EXCEPT !.pc = "idle", !.returned = TRUE,
                                         !.err = ErrConflict])
            /\ UNCHANGED series
       ELSE /\ Set(t, [threads[t] EXCEPT
                          !.pc = "index_tag", !.returned = TRUE,
                          !.keys = PostingKeys(threads[t].metric, threads[t].tags)])
            /\ series' = Put(series, threads[t].id,
                             SeriesMeta(threads[t].metric, threads[t].tags))
    /\ UNCHANGED <<postings, points, regCache, idxCache, heap, arg, closed, closes>>
    /\ HistoryUnchanged

\* Index, indexTag of the next posting key: idx.cache.LoadOrStore.
IndexLoadOrStore(t) ==
    /\ At(t, "index_tag")
    /\ SetDB(LoadOrStore(DB, threads[t].keys[1]))
    /\ Set(t, [threads[t] EXCEPT
                  !.pc = "index_add",
                  !.bm = LoadOrStore(DB, threads[t].keys[1]).idxCache[threads[t].keys[1]]])
    /\ HistoryUnchanged

\* A method of a roaring64.Bitmap is not one step: between its begin and
\* its end other threads run.  bm.Add in indexTag writes the object;
\* bm.ToBytes in persistKey and the iterator of Execute read it.  No lock is
\* taken around any of them.
Writes(t) == threads[t].pc = "index_adding"
Reads(t) == threads[t].pc \in {"serializing", "exec_next"}

\* indexTag, bm.Add(seriesID) begins: it reads the object.
AddBegin(t) ==
    /\ At(t, "index_add")
    /\ Set(t, [threads[t] EXCEPT !.pc = "index_adding",
                                 !.ids = heap[threads[t].bm]])
    /\ StoreUnchanged
    /\ HistoryUnchanged

\* indexTag, bm.Add(seriesID) ends: the object holds the ID.  When another
\* Add has written the object since this one began, this one either kept
\* what the other wrote or wrote over it (lost).
AddEnd(t, lost) ==
    /\ At(t, "index_adding")
    /\ heap' = [heap EXCEPT ![threads[t].bm] =
                    (IF lost THEN threads[t].ids ELSE @) \cup {threads[t].id}]
    /\ IF Len(threads[t].keys) > 1
       THEN Set(t, [threads[t] EXCEPT !.pc = "index_tag", !.bm = <<>>,
                                      !.ids = {},
                                      !.keys = Tail(threads[t].keys)])
       ELSE Set(t, [threads[t] EXCEPT
                       !.pc = "persist_key", !.bm = <<>>, !.ids = {},
                       !.keys = PostingKeys(threads[t].metric, threads[t].tags)])
    /\ UNCHANGED <<series, postings, points, regCache, idxCache>>
    /\ HistoryUnchanged

\* persistKey, idx.cache.Load(key) and the begin of bm.ToBytes.
SerializeBegin(t) ==
    /\ At(t, "persist_key")
    /\ threads[t].keys[1] \in DOMAIN idxCache
    /\ Set(t, [threads[t] EXCEPT !.pc = "serializing",
                                 !.bm = idxCache[threads[t].keys[1]]])
    /\ StoreUnchanged
    /\ HistoryUnchanged

\* persistKey, bm.ToBytes ends and txn.Set puts the bytes into the
\* transaction.
SerializeEnd(t) ==
    /\ At(t, "serializing")
    /\ Set(t, [threads[t] EXCEPT
                  !.pc = IF Len(threads[t].keys) > 1 THEN "persist_key"
                         ELSE "persist_commit",
                  !.keys = Tail(threads[t].keys), !.bm = <<>>,
                  !.pend = Put(threads[t].pend, threads[t].keys[1],
                               heap[threads[t].bm])])
    /\ StoreUnchanged
    /\ HistoryUnchanged

\* persist, the commit of its transaction, which read no key: Index returns
\* nil.
PersistCommit(t) ==
    /\ At(t, "persist_commit")
    /\ postings' = Commit(postings, threads[t].pend)
    /\ indexed' = indexed \cup {[metric |-> threads[t].metric,
                                 tags |-> threads[t].tags,
                                 id |-> threads[t].id, session |-> session]}
    /\ Set(t, [threads[t] EXCEPT !.pc = "point", !.pend = EmptyMap])
    /\ UNCHANGED <<series, points, regCache, idxCache, heap, arg, closed, closes>>
    /\ UNCHANGED <<session, ret, asked, written, batch, iter, arg, closed, closes>>

\* WriteAtWithTagset, the transaction that sets the data point: WriteAt
\* returns nil.
PointWrite(t) ==
    /\ At(t, "point")
    /\ points' = Put(points, EncodeDataKey(threads[t].id, threads[t].ts),
                     EncodeDataValue(threads[t].value))
    /\ written' = Put(written, [metric |-> threads[t].metric,
                                id |-> threads[t].id, ts |-> threads[t].ts],
                      threads[t].value)
    /\ Set(t, [threads[t] EXCEPT !.pc = "idle"])
    /\ UNCHANGED <<series, postings, regCache, idxCache, heap, arg, closed, closes>>
    /\ UNCHANGED <<session, ret, asked, indexed, batch, iter, arg, closed, closes>>

\* The series a posting lookup of the key must find: those whose Index has
\* returned nil and touched the key.
IndexedUnder(key) ==
    {e.id : e \in {x \in indexed :
                      \E i \in DOMAIN PostingKeys(x.metric, x.tags) :
                          PostingKeys(x.metric, x.tags)[i] = key}}

\* The points an Execute of the metric must find: those whose WriteAt has
\* returned nil.
WrittenUnder(metric) ==
    {[id |-> w.id, ts |-> w.ts, value |-> written[w]] :
        w \in {x \in DOMAIN written : x.metric = metric}}

\* A thread calls GetAllSeriesIDs or GetSeriesIDs for a posting key.
StartLookup(t, key) ==
    /\ At(t, "idle")
    /\ threads[t].calls < MaxCalls
    /\ Set(t, [IdleThread EXCEPT !.pc = "get_load", !.op = "Lookup",
                                 !.calls = threads[t].calls + 1, !.key = key,
                                 !.must = IndexedUnder(key)])
    /\ StoreUnchanged
    /\ HistoryUnchanged

\* A thread calls NewQuery(db, metric).Execute(): resolveFilter looks up the
\* metric-wide posting.
StartExecute(t, metric) ==
    /\ At(t, "idle")
    /\ threads[t].calls < MaxCalls
    /\ Set(t, [IdleThread EXCEPT !.pc = "get_load", !.op = "Execute",
                                 !.calls = threads[t].calls + 1,
                                 !.metric = metric, !.key = metric,
                                 !.must = WrittenUnder(metric)])
    /\ StoreUnchanged
    /\ HistoryUnchanged

\* Where a thread goes when getBitmap returns: a lookup has returned, Execute
\* goes on to read the series.
AfterGet(t) == IF threads[t].op = "Execute" THEN "exec_query" ELSE "idle"

\* getBitmap, idx.cache.Load(key): a hit returns the cached bitmap.
GetLoad(t) ==
    /\ At(t, "get_load")
    /\ IF threads[t].key \in DOMAIN idxCache
       THEN Set(t, [threads[t] EXCEPT
                       !.pc = AfterGet(t), !.returned = TRUE,
                       !.bm = idxCache[threads[t].key],
                       !.ids = heap[idxCache[threads[t].key]]])
       ELSE Set(t, [threads[t] EXCEPT !.pc = "get_view"])
    /\ StoreUnchanged
    /\ HistoryUnchanged

\* getBitmap, the View transaction: a new bitmap read from the store.
GetView(t) ==
    /\ At(t, "get_view")
    /\ Set(t, [threads[t] EXCEPT !.pc = "get_store",
                                 !.ids = StoredIDs(DB, threads[t].key)])
    /\ StoreUnchanged
    /\ HistoryUnchanged

\* getBitmap, idx.cache.Store(key, bm): the new bitmap is returned.
GetStore(t) ==
    /\ At(t, "get_store")
    /\ SetDB(storeNew(DB, threads[t].key, NewRef(DB, threads[t].key),
                      threads[t].ids).db)
    /\ Set(t, [threads[t] EXCEPT !.pc = AfterGet(t), !.returned = TRUE,
                                 !.bm = NewRef(DB, threads[t].key)])
    /\ HistoryUnchanged

\* Execute, seriesIDs.Iterator() on the bitmap resolveFilter returned, which
\* with no filter is the cached object itself: todo is what the bitmap holds
\* when the iterator is made.
IterateBegin(t) ==
    /\ At(t, "exec_query")
    /\ Set(t, [threads[t] EXCEPT !.pc = "exec_iterating",
                                 !.todo = Ascending(heap[threads[t].bm])])
    /\ StoreUnchanged
    /\ HistoryUnchanged

\* The object of a thread's iterator has been written since the iterator was
\* made, or another thread is inside bm.Add on it: no lock keeps an Add away,
\* and roaring64 gives an iterator of a modified bitmap no defined behaviour.
Disturbed(t) ==
    \/ heap[threads[t].bm] /= {threads[t].todo[i] : i \in DOMAIN threads[t].todo}
    \/ \E u \in Threads \ {t} : Writes(u) /\ threads[u].bm = threads[t].bm

\* What the iterator of a thread has left.  It reads the object as it
\* advances: above the IDs it has returned it sees what the object holds now
\* (live) or what it held when the iterator was made; the two are the same
\* for an object that has not been written.
Remaining(t, live) ==
    {id \in (IF live THEN heap[threads[t].bm]
             ELSE {threads[t].todo[i] : i \in DOMAIN threads[t].todo}) :
        \A v \in threads[t].visited : id > v}

\* Execute, the head of the loop: the thread enters iter.HasNext(), which
\* reads the object.
IterateHasNext(t) ==
    /\ At(t, "exec_iterating")
    /\ Set(t, [threads[t] EXCEPT !.pc = "exec_next"])
    /\ StoreUnchanged
    /\ HistoryUnchanged

\* Execute, iter.HasNext() is true and iter.Next() returns sid, the least ID
\* the iterator has left.  On a bitmap written since the iterator was made
\* this is one outcome of three: IterateRepeat and IteratePanic are the others.
IterateTurn(t, live) ==
    /\ At(t, "exec_next")
    /\ Remaining(t, live) /= {}
    /\ Set(t, [threads[t] EXCEPT
                  !.pc = "exec_read",
                  !.id = Ascending(Remaining(t, live))[1],
                  !.visited = @ \cup {Ascending(Remaining(t, live))[1]}])
    /\ StoreUnchanged
    /\ HistoryUnchanged

\* Execute, iter.Next() on the iterator of a bitmap written since: its
\* position no longer fits the containers of the object, and it returns an ID
\* it has returned before.
IterateRepeat(t, sid) ==
    /\ At(t, "exec_next")
    /\ Disturbed(t)
    /\ sid \in threads[t].visited
    /\ Set(t, [threads[t] EXCEPT !.pc = "exec_read", !.id = sid])
    /\ StoreUnchanged
    /\ HistoryUnchanged

\* Execute, iter.Next() on the iterator of a bitmap written since panics (a
\* nil or exhausted inner iterator): nothing recovers, the process ends and no
\* thread takes another step.
IteratePanic(t) ==
    /\ At(t, "exec_next")
    /\ Disturbed(t)
    /\ threads' = [u \in Threads |-> [threads[u] EXCEPT !.pc = "panicked"]]
    /\ StoreUnchanged
    /\ HistoryUnchanged

\* Execute, q.db.Query(sid, q.options): a View transaction of its own reads
\* the series; its points are kept when there are some.
iterateQuery(th, pts) ==
    [th EXCEPT !.pc = "exec_iterating",
               !.res = IF Len(pts) > 0 THEN Put(@, th.id, pts) ELSE @]

IterateQuery(t) ==
    /\ At(t, "exec_read")
    /\ Set(t, iterateQuery(threads[t], Query(DB, threads[t].id, NoOpts)))
    /\ StoreUnchanged
    /\ HistoryUnchanged

\* Execute, iter.HasNext() is false: the loop ends and Execute returns the
\* results.  On a bitmap written since the iterator was made the loop may
\* not end this way: HasNext reads the new size and Next may panic
\* (IteratePanic), so Execute need not return.
IterateEnd(t, live) ==
    /\ At(t, "exec_next")
    /\ Remaining(t, live) = {}
    /\ Set(t, [threads[t] EXCEPT !.pc = "idle", !.todo = <<>>])
    /\ StoreUnchanged
    /\ HistoryUnchanged

\* Concurrent writes, posting lookups and unfiltered queries of one session.
NextConc ==
    \E t \in Threads :
        \/ \E m \in Metrics, tm \in ConcTagMaps : StartWriteAt(t, m, 1, tm, 1)
        \/ GocLoad(t)
        \/ GocGet(t)
        \/ GocStore(t)
        \/ GocCommit(t)
        \/ IndexLoadOrStore(t)
        \/ AddBegin(t)
        \/ \E lost \in BOOLEAN : AddEnd(t, lost)
        \/ SerializeBegin(t)
        \/ SerializeEnd(t)
        \/ PersistCommit(t)
        \/ PointWrite(t)
        \/ \E k \in ConcKeys : StartLookup(t, k)
        \/ \E m \in Metrics : StartExecute(t, m)
        \/ GetLoad(t)
        \/ GetView(t)
        \/ GetStore(t)
        \/ IterateBegin(t)
        \/ IterateHasNext(t)
        \/ \E live \in BOOLEAN : IterateTurn(t, live)
        \/ \E sid \in threads[t].visited : IterateRepeat(t, sid)
        \/ IteratePanic(t)
        \/ IterateQuery(t)
        \/ \E live \in BOOLEAN : IterateEnd(t, live)

SpecConc == Init /\ [][NextConc]_vars

\* ------------------------------------------------- accesses to a bitmap
\* Concurrent writes of series of one metric and unfiltered queries of it.
NextRace ==
    \E t \in Threads :
        \/ \E m \in Metrics, tm \in ConcTagMaps : StartWriteAt(t, m, 1, tm, 1)
        \/ GocLoad(t)
        \/ GocGet(t)
        \/ GocStore(t)
        \/ GocCommit(t)
        \/ IndexLoadOrStore(t)
        \/ AddBegin(t)
        \/ \E lost \in BOOLEAN : AddEnd(t, lost)
        \/ SerializeBegin(t)
        \/ SerializeEnd(t)
        \/ PersistCommit(t)
        \/ PointWrite(t)
        \/ \E m \in Metrics : StartExecute(t, m)
        \/ GetLoad(t)
        \/ GetView(t)
        \/ GetStore(t)
        \/ IterateBegin(t)
        \/ IterateHasNext(t)
        \/ \E live \in BOOLEAN : IterateTurn(t, live)
        \/ \E sid \in threads[t].visited : IterateRepeat(t, sid)
        \/ IteratePanic(t)
        \/ IterateQuery(t)
        \/ \E live \in BOOLEAN : IterateEnd(t, live)

SpecRace == Init /\ [][NextRace]_vars

\* -------------------------------------------------- the existence cache
CacheTagMaps == {EmptyMap}
CacheIDs == {ComputeSeriesID(m, Sort(FromMap(tm))) : m \in Metrics,
                                                    tm \in CacheTagMaps}

\* GetOrCreate, the commit of the transaction fails for a reason other than
\* a conflict: the SeriesMeta is not written, GetOrCreate returns
\* (id, true, err) and WriteAt returns err.
GocCommitFails(t) ==
    /\ At(t, "goc_commit")
    /\ Set(t, [threads[t] EXCEPT !.pc = "idle", !.returned = TRUE,
                                 !.err = ErrCommit])
    /\ StoreUnchanged
    /\ HistoryUnchanged

\* A thread calls SeriesRegistry.Exists(id).
StartExists(t, id) ==
    /\ At(t, "idle")
    /\ threads[t].calls < MaxCalls
    /\ Set(t, [IdleThread EXCEPT !.pc = "exists_load", !.op = "Exists",
                                 !.calls = threads[t].calls + 1, !.id = id])
    /\ StoreUnchanged
    /\ HistoryUnchanged

\* Exists, r.cache.Load(id): a hit returns true.
ExistsLoad(t) ==
    /\ At(t, "exists_load")
    /\ IF threads[t].id \in regCache
       THEN Set(t, [threads[t] EXCEPT !.pc = "idle", !.returned = TRUE,
                                      !.found = TRUE])
       ELSE Set(t, [threads[t] EXCEPT !.pc = "exists_view"])
    /\ StoreUnchanged
    /\ HistoryUnchanged

\* Exists, the View transaction: txn.Get of the series key; a key not found
\* returns false.
ExistsView(t) ==
    /\ At(t, "exists_view")
    /\ IF threads[t].id \in DOMAIN series
       THEN Set(t, [threads[t] EXCEPT !.pc = "exists_store", !.found = TRUE])
       ELSE Set(t, [threads[t] EXCEPT !.pc = "idle", !.returned = TRUE])
    /\ StoreUnchanged
    /\ HistoryUnchanged

\* Exists, r.cache.Store(id) after txn.Get found the key: Exists returns
\* true.
ExistsStore(t) ==
    /\ At(t, "exists_store")
    /\ regCache' = regCache \cup {threads[t].id}
    /\ Set(t, [threads[t] EXCEPT !.pc = "idle", !.returned = TRUE])
    /\ UNCHANGED <<series, postings, points, idxCache, heap>>
    /\ HistoryUnchanged

\* Concurrent writes of one series whose commits may fail, and calls of
\* Exists at any time.
NextCache ==
    \E t \in Threads :
        \/ \E m \in Metrics, tm \in CacheTagMaps, ts \in {1, 2} :
              StartWriteAt(t, m, 1, tm, ts)
        \/ GocLoad(t)
        \/ GocGet(t)
        \/ GocStore(t)
        \/ GocCommit(t)
        \/ GocCommitFails(t)
        \/ IndexLoadOrStore(t)
        \/ AddBegin(t)
        \/ \E lost \in BOOLEAN : AddEnd(t, lost)
        \/ SerializeBegin(t)
        \/ SerializeEnd(t)
        \/ PersistCommit(t)
        \/ PointWrite(t)
        \/ \E id \in CacheIDs : StartExists(t, id)
        \/ ExistsLoad(t)
        \/ ExistsView(t)
        \/ ExistsStore(t)

SpecCache == Init /\ [][NextCache]_vars

\* ------------------------------------------------- reads during commits
\* Execute and QueryByMetric read the series of the resolved bitmap one by
\* one, each in a View transaction of its own; a step of the reading thread
\* is one of these transactions.  Between them a batch writer commits.
\* History: seen of a reading thread is every state of the data entries
\* since its call began.
SnapTagMaps == ConcTagMaps
SnapTimestamps == {1, 2}
SnapOpts == {NoOpts, QueryOptions(0, 0, 1)}
\* The threads that read; the batch writer is used by another one.
Readers == {1}
Reading(t) == threads[t].pc = "read_series"

\* History: the threads after the data entries have become pts.
Logged(pts) ==
    [t \in Threads |->
        IF Reading(t) THEN [threads[t] EXCEPT !.seen = @ \cup {pts}]
        ELSE threads[t]]

\* Execute up to the loop: r is what resolveFilter returned.
startReads(t, r, metric, opts) ==
    [IdleThread EXCEPT
        !.pc = IF r.bm.ids = {} THEN "idle" ELSE "read_series",
        !.op = "Execute", !.calls = threads[t].calls + 1,
        !.metric = metric, !.opts = opts, !.ids = r.bm.ids,
        !.todo = Ascending(r.bm.ids), !.returned = (r.bm.ids = {}),
        !.seen = {r.db.points}]

\* A thread calls NewQuery(db, metric).TimeRange(..).Limit(..).Execute(), or
\* QueryByMetric(metric, opts): the metric-wide posting is resolved.
StartReads(t, metric, opts) ==
    /\ At(t, "idle")
    /\ threads[t].calls < MaxCalls
    /\ SetDB(resolveFilter(DB, metric, NoFilter).db)
    /\ Set(t, startReads(t, resolveFilter(DB, metric, NoFilter), metric, opts))
    /\ HistoryUnchanged

\* One turn of the loop: q.db.Query(sid, q.options) of the next series, kept
\* when it has points; after the last series Execute returns.
readSeries(th, sid, pts) ==
    [th EXCEPT !.res = IF Len(pts) > 0 THEN Put(@, sid, pts) ELSE @,
               !.todo = Tail(@),
               !.pc = IF Len(th.todo) = 1 THEN "idle" ELSE "read_series",
               !.returned = (Len(th.todo) = 1)]

ReadSeries(t) ==
    /\ At(t, "read_series")
    /\ Set(t, readSeries(threads[t], threads[t].todo[1],
                         Query(DB, threads[t].todo[1], threads[t].opts)))
    /\ StoreUnchanged
    /\ HistoryUnchanged

\* A call on the BatchWriter that returns r while threads read.
BatchStep(r, op, id) ==
    /\ batch.state = "open"
    /\ BatchEffects(r, op, id, Nil)
    /\ threads' = Logged(r.db.points)
    /\ UNCHANGED <<session, asked, indexed, iter, arg, closed, closes>>

\* Two series are written; then a batch writer adds points of them and
\* flushes while a thread reads the metric.
NextSnap ==
    \/ /\ \A t \in Threads : ~Reading(t)
       /\ \E m \in Metrics, tm \in SnapTagMaps : DoWriteAt(m, 1, tm, 1)
    \/ DoNewBatchWriter
    \/ \E id \in DOMAIN series, ts \in SnapTimestamps :
          BatchStep(WriteRaw(DB, batch, id, 2, ts), "WriteRaw", id)
    \/ BatchStep(Flush(DB, batch), "Flush", 0)
    \/ \E t \in Readers, m \in Metrics, o \in SnapOpts : StartReads(t, m, o)
    \/ \E t \in Readers : ReadSeries(t)

SpecSnap == Init /\ [][NextSnap]_vars

\* ------------------------------------------------------ series isolation
\* Two series IDs next to each other.
IsoIDs == {0, 1}
IsoTimestamps == {-1, 1}
IsoOpts == {NoOpts, QueryOptions(0, 1, 0)}

\* Batches of points of neighbouring series, each point with the ID of its
\* series as its value, and range reads and an iterator over them.
NextIso ==
    \/ DoNewBatchWriter
    \/ \E id \in IsoIDs, ts \in IsoTimestamps : DoWriteRaw(id, id, ts)
    \/ DoFlush
    \/ \E id \in IsoIDs, o \in IsoOpts : DoQuery(id, o)
    \/ \E id \in IsoIDs, o \in IsoOpts : DoNewIterator(id, o)
    \/ DoIterNext

SpecIso == Init /\ [][NextIso]_vars

\* ------------------------------------------------ batches and the registry
BatchTagMaps == {EmptyMap, [k \in {<<"a">>} |-> <<"c">>]}
BatchSeriesTimestamps == {0, 1, 2}

\* A batch of points of new and of registered series, and calls of the
\* registry before, during and after it.
NextBatchSeries ==
    \/ DoNewBatchWriter
    \/ \E m \in Metrics, t \in BatchTagMaps, ts \in BatchSeriesTimestamps :
          DoBatchWriteAt(m, 1, t, ts)
    \/ DoFlush
    \/ DoCancel
    \/ \E m \in Metrics, t \in BatchTagMaps : DoGetOrCreate(m, FromMap(t))

SpecBatchSeries == Init /\ [][NextBatchSeries]_vars

\* ------------------------------------------------------ counting queries
\* Two series a group-by key "b" puts into one group and a key "a" into two.
CountTagMaps == {EmptyMap, [k \in {<<"a">>} |-> <<"c">>]}
CountTimestamps == {1, 2}
\* A series ID that no GetOrCreate returns: the registry has no SeriesMeta
\* of it.
CountRawIDs == {1}
CountGroupBys == {<<>>, <<<<"a">>>>, <<<<"b">>>>}
\* Reads of SeriesMeta the store may fail during one call.
CountFaults == [meta : SUBSET DOMAIN series, data : {{}},
                index : {FALSE}, point : {FALSE}]

\* Writes of points of registered series; a series that is indexed by a
\* direct call of Index and written by WriteRaw without being registered;
\* COUNT queries during which reads of SeriesMeta may fail.
NextCount ==
    \/ \E m \in Metrics, t \in CountTagMaps, ts \in CountTimestamps :
          DoWriteAt(m, 1, t, ts)
    \/ \E m \in Metrics, id \in CountRawIDs : DoIndex(m, <<>>, id)
    \/ DoNewBatchWriter
    \/ \E id \in CountRawIDs, ts \in CountTimestamps : DoWriteRaw(id, 1, ts)
    \/ DoFlush
    \/ \E m \in Metrics, g \in CountGroupBys, w \in {0, 2}, x \in CountFaults :
          DoAggregateQueryFaults(m, NoOpts, g, AggregateOptions(AggCount, w), x)

SpecCount == Init /\ [][NextCount]_vars

\* ------------------------------------------------------------- properties
\* The IDs of the bitmap a posting lookup of the key returns in this state.
LookupIDs(db, key) == LET g == getBitmap(db, key) IN g.db.heap[g.bm]

AllPostingKeys ==
    Metrics \cup {formatTagKey(m, k, v) : m \in Metrics, k \in TagKeys,
                                           v \in TagValues}

\* C1: the first GetOrCreate for a (metric, canonical tags) returns
\* created = true and writes its SeriesMeta; every later call returns
\* created = false, and the record of every pair asked for so far is the one
\* written for that pair.
C1_RegisterOnce ==
    ret.op = "GetOrCreate" =>
        /\ ret.created = ret.first
        /\ \A p \in asked :
              LET id == ComputeSeriesID(p[1], p[2])
              IN id \in DOMAIN series /\ series[id] = SeriesMeta(p[1], p[2])

\* C3: postings grow monotonically: an ID contained in the persisted entry of
\* a posting key, or in the bitmap a lookup of the key returns, is contained
\* in it after every step, Close and reopen included.
C3_PostingsMonotonic ==
    [][\A key \in AllPostingKeys :
          /\ key \in DOMAIN postings =>
                key \in DOMAIN postings' /\ postings[key] \subseteq postings'[key]
          /\ LookupIDs(DB, key) \subseteq LookupIDs(DB, key)']_vars

\* C4 as stated: within a session, every series whose Index returned nil is
\* in the bitmap that GetAllSeriesIDs returns for its metric and GetSeriesIDs
\* for each of its tags, and the bitmap of a tag holds only series with that
\* tag.
C4_IndexedVisible ==
    /\ \A e \in indexed :
          e.session = session =>
             \A i \in DOMAIN PostingKeys(e.metric, e.tags) :
                e.id \in LookupIDs(DB, PostingKeys(e.metric, e.tags)[i])
    /\ \A m \in Metrics, k \in TagKeys, v \in TagValues :
          \A id \in LookupIDs(DB, formatTagKey(m, k, v)) :
             /\ id \in DOMAIN series
             /\ series[id].m = m
             /\ TagsetGet(series[id].t, k) = v

\* C4, amended: within a session, every ID whose Index returned nil is in
\* the bitmap that GetAllSeriesIDs returns for the metric and GetSeriesIDs
\* for each tag of the call, and the bitmap of a tag holds only IDs that a
\* call of Index was given together with that tag: Index does not compare
\* the tags with those the registry holds for the ID.
C4_IndexedAsGiven ==
    /\ \A e \in indexed :
          e.session = session =>
             \A i \in DOMAIN PostingKeys(e.metric, e.tags) :
                e.id \in LookupIDs(DB, PostingKeys(e.metric, e.tags)[i])
    /\ \A m \in Metrics, k \in TagKeys, v \in TagValues :
          \A id \in LookupIDs(DB, formatTagKey(m, k, v)) :
             \E e \in indexed :
                e.id = id /\ e.metric = m /\ TagsetGet(e.tags, k) = v

\* A lookup of a tag posting, made after a lookup of the key that missed,
\* returned an ID that a direct call of Index was given with two tags in
\* this session.
C4_Witness ==
    /\ ret.op = "GetSeriesIDs"
    /\ \E e \in indexed :
          /\ e.session = session /\ Len(e.tags) = 2 /\ e.id \in ret.ids
          /\ e.id \in DOMAIN series
          /\ series[e.id].t /= e.tags

\* The timestamps of a result of Database.Query, in the order returned.
RetTimestamps == [i \in DOMAIN ret.pts |-> ret.pts[i].Timestamp]

\* C9: Database.Query returns the points of a series in strictly descending
\* timestamp order, whatever the stored timestamps and the options.
C9_Descending ==
    ret.op = "Query" =>
        \A i \in DOMAIN ret.pts :
            i > 1 => RetTimestamps[i - 1] > RetTimestamps[i]

\* C10: every point Database.Query returns has Start <= ts when Start is not
\* zero and ts <= End when End is not zero.
C10_WithinBounds ==
    ret.op = "Query" =>
        \A i \in DOMAIN ret.pts :
            /\ ret.opts.Start /= 0 => ret.opts.Start <= RetTimestamps[i]
            /\ ret.opts.End /= 0 => RetTimestamps[i] <= ret.opts.End


\* A tagset satisfies a filter: TagFilter by the tag it carries, AndFilter by
\* conjunction, OrFilter by disjunction.
RECURSIVE Satisfies(_, _)
Satisfies(tags, f) ==
    IF f[1] = "tag" THEN TagsetGet(tags, f[2]) = f[3]
    ELSE IF f[1] = "and" THEN Satisfies(tags, f[2]) /\ Satisfies(tags, f[3])
    ELSE Satisfies(tags, f[2]) \/ Satisfies(tags, f[3])

\* C8: ExecuteRaw returns exactly the IDs of the series written under the
\* metric whose tagset satisfies the filter, and with no filter exactly the
\* IDs of the metric-wide posting.
C8_FilterExact ==
    ret.op = "ExecuteRaw" =>
        IF ret.filter = NoFilter
        THEN ret.ids = LookupIDs(DB, ret.metric)
        ELSE ret.ids = {ComputeSeriesID(p[1], p[2]) :
                           p \in {q \in asked : /\ q[1] = ret.metric
                                                /\ Satisfies(q[2], ret.filter)}}


\* C2: of the concurrent GetOrCreate calls for one new series, at most one
\* returns created = true.
C2_CreatedOnce ==
    \A t1, t2 \in Threads :
        (/\ t1 /= t2
         /\ threads[t1].op = "WriteAt" /\ threads[t2].op = "WriteAt"
         /\ threads[t1].id = threads[t2].id
         /\ threads[t1].returned /\ threads[t2].returned)
            => ~(threads[t1].created /\ threads[t2].created)

\* C5: a posting lookup that starts after Index has returned nil for a series
\* under the key returns a bitmap that contains the series, whatever runs
\* concurrently on other threads.
C5_VisibleToLookups ==
    \A t \in Threads :
        (threads[t].op = "Lookup" /\ threads[t].returned)
            => threads[t].must \subseteq threads[t].ids

\* C6: once Index has returned nil for a series, the persisted entry of each
\* of its posting keys contains the series, also when other threads index
\* other series of the metric at the same time.
C6_IndexDurable ==
    \A e \in indexed :
        \A i \in DOMAIN PostingKeys(e.metric, e.tags) :
            e.id \in StoredIDs(DB, PostingKeys(e.metric, e.tags)[i])

\* C7: an unfiltered, unbounded Execute that starts after a WriteAt of the
\* metric has returned nil returns the written point under its series.
C7_WrittenVisible ==
    \A t \in Threads :
        (threads[t].op = "Execute" /\ threads[t].pc = "idle")
            => \A w \in threads[t].must :
                  /\ w.id \in DOMAIN threads[t].res
                  /\ \E i \in DOMAIN threads[t].res[w.id] :
                        threads[t].res[w.id][i] = DataPoint(w.ts, w.value)


\* The timestamps stored for a series that lie in the range of the options,
\* a bound of zero being no bound.
InRange(db, seriesID, opts) ==
    {ts \in {DecodeDataKey(k).ts :
                k \in {x \in DOMAIN db.points :
                          HasPrefix(x, DataKeyPrefix(seriesID))}} :
        /\ opts.Start /= 0 => opts.Start <= ts
        /\ opts.End /= 0 => ts <= opts.End}

Min(a, b) == IF a < b THEN a ELSE b

\* C11: with Limit > 0, Database.Query returns the first min(Limit, n) points
\* of the same query without a limit, and they are the newest points in range.
C11_LimitNewest ==
    (ret.op = "Query" /\ ret.opts.Limit > 0) =>
        /\ Len(ret.pts) <= ret.opts.Limit
        /\ ret.pts = SubSeq(Query(DB, ret.id, [ret.opts EXCEPT !.Limit = 0]), 1,
                            Min(ret.opts.Limit,
                                Len(Query(DB, ret.id,
                                          [ret.opts EXCEPT !.Limit = 0]))))
        /\ \A i \in DOMAIN ret.pts :
              Cardinality({ts \in InRange(DB, ret.id, ret.opts) :
                              ts > RetTimestamps[i]}) < ret.opts.Limit

\* The series that points were written to, and the timestamps written to one.
WrittenIDs == {w.id : w \in DOMAIN written}
WrittenTo(id) == {w \in DOMAIN written : w.id = id}

\* The points of a sequence of points.
PointSet(q) == {q[i] : i \in DOMAIN q}

\* C12: after any sequence of single writes and flushed batches, the unbounded
\* Query of a series returns exactly one point per timestamp written to it,
\* with the value of the last write to that timestamp.
C12_LastWriteWins ==
    \A id \in WrittenIDs :
        /\ PointSet(Query(DB, id, NoOpts)) =
              {DataPoint(w.ts, written[w]) : w \in WrittenTo(id)}
        /\ Len(Query(DB, id, NoOpts)) = Cardinality({w.ts : w \in WrittenTo(id)})

\* A single write has replaced the value of a point that a flushed batch had
\* stored, and the series has other points.
C12_Witness ==
    /\ ret.op = "WriteAt"
    /\ batch.state = "flushed"
    /\ \E k \in DOMAIN batch.added :
          /\ k \in DOMAIN points
          /\ batch.added[k].id = ret.id
          /\ DecodeDataValue(points[k]) /= batch.added[k].value
    /\ Cardinality(DOMAIN points) > 1


\* C14: when Flush has returned nil, Query of its series returns every point
\* added to the batch, once per (series, timestamp) of the batch and with the
\* value added last.
C14_FlushedStored ==
    ret.op = "Flush" =>
        \A k \in DOMAIN batch.added :
            /\ DataPoint(batch.added[k].ts, batch.added[k].value)
                  \in PointSet(Query(DB, batch.added[k].id, NoOpts))
            /\ Cardinality({i \in DOMAIN Query(DB, batch.added[k].id, NoOpts) :
                               Query(DB, batch.added[k].id, NoOpts)[i].Timestamp
                                  = batch.added[k].ts}) = 1

\* C15: after Cancel the entries under the data prefix are those the store
\* would have without the batch, and stay so.
C15_CancelledNotStored ==
    batch.state = "cancelled" => points = batch.base

\* C13: when Next has returned false, the points Value returned after each
\* true Next, in order, are the sequence Query returns for the same series
\* and options on the entries the iterator's transaction sees.
C13_IteratorEqualsQuery ==
    iter.done =>
        iter.out = Query([points |-> iter.snap], iter.seriesID, iter.opts)

\* The orders of the tags of a tagset, and the one sorted by key, then value.
Orders(t) ==
    {q \in [1..Len(t) -> {t[i] : i \in 1..Len(t)}] :
        \A i \in 1..Len(t) : \E j \in 1..Len(t) : q[j] = t[i]}
Sorted(t) ==
    CHOOSE q \in Orders(t) :
        \A i \in 1..(Len(q) - 1) : ~TagLess(q[i + 1], q[i])

\* C16: two different (metric, sorted tagset) pairs asked for get different
\* series IDs (the hash being injective on the byte streams it is fed).
C16_DistinctIDs ==
    \A p, q \in asked :
        p /= q => ComputeSeriesID(p[1], p[2]) /= ComputeSeriesID(q[1], q[2])

\* C17: the ID GetOrCreate returns for a metric and a tagset is the ID it
\* gives for every other order of the tags, and the ID ComputeSeriesID gives
\* for the metric and the sorted tags.
C17_OrderInvariant ==
    ret.op = "GetOrCreate" =>
        \A p \in Orders(ret.input) :
            /\ GetOrCreate(DB, ret.metric, p).id = ret.id
            /\ ComputeSeriesID(ret.metric, Sorted(p)) = ret.id

\* GetOrCreate has returned for a tagset of two tags given in descending
\* order.
C17_Witness ==
    /\ ret.op = "GetOrCreate"
    /\ Len(ret.input) = 2
    /\ TagLess(ret.input[2], ret.input[1])
    /\ ret.tags /= ret.input

\* C18: of two points written to one series, the one with the greater
\* timestamp has the bytewise smaller data key, whatever the signs of the
\* timestamps.
C18_KeyOrder ==
    \A w1, w2 \in DOMAIN written :
        (w1.id = w2.id /\ w1.ts > w2.ts) =>
            BytesLess(EncodeDataKey(w1.id, w1.ts), EncodeDataKey(w2.id, w2.ts))

\* C19: the data key of every point added to a batch decodes to the series ID
\* and the timestamp it was added with.
C19_KeyRoundTrip ==
    \A k \in DOMAIN batch.added :
        DecodeDataKey(k) =
            [seriesID |-> batch.added[k].id, ts |-> batch.added[k].ts]

\* Points of series 0 and of the greatest series ID, at the least and at the
\* greatest timestamp, have been added to a batch.
C19_Witness ==
    \E k1, k2 \in DOMAIN batch.added :
        /\ batch.added[k1].id = 0 /\ batch.added[k1].ts = MaxInt64
        /\ batch.added[k2].id = WordMod - 1 /\ batch.added[k2].ts = MinInt64

\* The bucket key the specification gives a timestamp: floor(ts / W) * W.
FloorKey(ts, w) == (ts \div w) * w

\* C20: with a bucket size W > 0, for every point of the list Aggregate
\* returns a bucket with Timestamp floor(ts / W) * W, whose Count is the
\* number of points of the list with that floor, negative timestamps included.
C20_FloorBuckets ==
    (ret.op = "Aggregate" /\ ret.aggOpts.BucketSize > 0) =>
        \A i \in DOMAIN ret.pts :
            \E j \in DOMAIN ret.buckets :
                /\ ret.buckets[j].Timestamp =
                      FloorKey(ret.pts[i].Timestamp, ret.aggOpts.BucketSize)
                /\ ret.buckets[j].Count =
                      Cardinality({n \in DOMAIN ret.pts :
                          FloorKey(ret.pts[n].Timestamp, ret.aggOpts.BucketSize)
                              = ret.buckets[j].Timestamp})

\* The lists with the points of a list in another order.
Reorderings(pts) ==
    {[i \in DOMAIN pts |-> pts[f[i]]] :
        f \in {g \in [DOMAIN pts -> DOMAIN pts] :
                  \A i, j \in DOMAIN pts : i /= j => g[i] /= g[j]}}

\* The points of the last Aggregate call that its key puts in the bucket at
\* timestamp k, by their places in the list; the float64 sum of their values
\* taken in the order of the list, and the least and the greatest value.
Assigned(k) ==
    {i \in DOMAIN ret.pts :
        bucketKey(ret.pts[i].Timestamp, ret.aggOpts.BucketSize) = k}
RECURSIVE SumOf(_)
lastOf(I) == CHOOSE i \in I : \A j \in I : j <= i
SumOf(I) ==
    IF I = {} THEN 0
    ELSE RoundFloat(SumOf(I \ {lastOf(I)}) + ret.pts[lastOf(I)].Value)
MinOf(I) == CHOOSE v \in {ret.pts[i].Value : i \in I} :
                \A i \in I : v <= ret.pts[i].Value
MaxOf(I) == CHOOSE v \in {ret.pts[i].Value : i \in I} :
                \A i \in I : v >= ret.pts[i].Value
Reduced(I, fn) ==
    IF fn = AggSum THEN Float(SumOf(I), 1)
    ELSE IF fn = AggMin THEN Float(MinOf(I), 1)
    ELSE IF fn = AggMax THEN Float(MaxOf(I), 1)
    ELSE IF fn = AggCount THEN Float(Cardinality(I), 1)
    ELSE Float(SumOf(I), Cardinality(I))

\* C21: for a non-empty list and W > 0, every bucket Aggregate returns has
\* the number of the points assigned to it as Count and their sum, minimum,
\* maximum, number or mean as Value, and the list in any other order gives
\* the same buckets.
C21_BucketValues ==
    (ret.op = "Aggregate" /\ Len(ret.pts) > 0 /\ ret.aggOpts.BucketSize > 0) =>
        /\ \A j \in DOMAIN ret.buckets :
              /\ ret.buckets[j].Count =
                    Cardinality(Assigned(ret.buckets[j].Timestamp))
              /\ ret.buckets[j].Value =
                    Reduced(Assigned(ret.buckets[j].Timestamp), ret.aggOpts.Func)
        /\ \A q \in Reorderings(ret.pts) :
              Aggregate(q, ret.aggOpts) = ret.buckets

\* C22: the buckets Aggregate returns are in strictly ascending order of
\* Timestamp, every Timestamp is a multiple of the bucket size, and there is
\* no bucket for an empty list or a bucket size <= 0.
C22_BucketsSorted ==
    ret.op = "Aggregate" =>
        /\ (Len(ret.pts) = 0 \/ ret.aggOpts.BucketSize <= 0) => ret.buckets = <<>>
        /\ ret.aggOpts.BucketSize > 0 =>
              \A j \in DOMAIN ret.buckets :
                  /\ ret.buckets[j].Timestamp % ret.aggOpts.BucketSize = 0
                  /\ j > 1 => ret.buckets[j - 1].Timestamp < ret.buckets[j].Timestamp

\* Aggregate has returned three buckets, on both sides of zero, for points
\* given in descending order of time and off the bucket boundaries.
C22_Witness ==
    /\ ret.op = "Aggregate"
    /\ Len(ret.buckets) = 3
    /\ ret.buckets[1].Timestamp < 0
    /\ ret.buckets[3].Timestamp > 0
    /\ ret.pts[1].Timestamp > ret.pts[3].Timestamp
    /\ \E i \in DOMAIN ret.pts : ret.pts[i].Timestamp % ret.aggOpts.BucketSize /= 0

\* The sum of the Values of all buckets of all results of the last
\* AggregateQuery, and the number of points the range reads of a set of
\* series return.
RECURSIVE BucketTotal(_)
BucketTotal(buckets) ==
    IF Len(buckets) = 0 THEN 0
    ELSE buckets[1].Value.num + BucketTotal(Tail(buckets))
RECURSIVE ResultTotal(_)
ResultTotal(results) ==
    IF Len(results) = 0 THEN 0
    ELSE BucketTotal(results[1].Buckets) + ResultTotal(Tail(results))
RECURSIVE PointTotal(_, _)
PointTotal(ids, opts) ==
    IF ids = {} THEN 0
    ELSE Len(Query(DB, CHOOSE x \in ids : TRUE, opts))
            + PointTotal(ids \ {CHOOSE x \in ids : TRUE}, opts)

\* C23 as stated: for the function COUNT the bucket values of all results of
\* AggregateQuery.Execute add up to the number of points the range reads of
\* the matched series return.
C23_CountTotal ==
    (ret.op = "AggregateQuery" /\ ret.aggOpts.Func = AggCount) =>
        ResultTotal(ret.results) = PointTotal(ret.ids, ret.opts)

\* The matched series a group-by Execute skips: those whose SeriesMeta
\* SeriesRegistry.Get does not return, because the read fails or because the
\* registry has none.
Skipped ==
    {id \in ret.ids : id \in ret.input.meta \/ id \notin DOMAIN series}

\* The matched series whose points Execute aggregates.
Counted == IF Len(ret.groupBy) > 0 THEN ret.ids \ Skipped ELSE ret.ids

\* C23 amended: for the function COUNT and an Execute that returns nil, with
\* a bucket size > 0 the bucket values of all results add up to the number of
\* points the range reads return for the matched series, without those a
\* group-by skips; with a bucket size <= 0 no result has a bucket and the sum
\* is 0.
C23_CountTotalBucketed ==
    (ret.op = "AggregateQuery" /\ ret.aggOpts.Func = AggCount
        /\ ret.err = Nil) =>
        IF ret.aggOpts.BucketSize > 0
        THEN ResultTotal(ret.results) = PointTotal(Counted, ret.opts)
        ELSE /\ ResultTotal(ret.results) = 0
             /\ \A i \in DOMAIN ret.results : ret.results[i].Buckets = <<>>

\* A COUNT query grouped by a key has returned one result that counts the
\* two points of two registered series of one group, while a third matched
\* series, indexed and written without being registered, has a point that
\* is not counted.
C23_Witness ==
    /\ ret.op = "AggregateQuery"
    /\ ret.aggOpts.Func = AggCount
    /\ ret.aggOpts.BucketSize > 0
    /\ ret.err = Nil
    /\ Len(ret.groupBy) = 1
    /\ Len(ret.results) = 1
    /\ Cardinality(ret.results[1].series) = 2
    /\ ResultTotal(ret.results) = 2
    /\ \E id \in ret.ids \ DOMAIN series : Len(Query(DB, id, ret.opts)) > 0

\* The value a series' stored tagset gives a group-by key.
GroupValue(sid, k) == TagsetGet(series[sid].t, k)
SameGroup(s1, s2) ==
    \A i \in DOMAIN ret.groupBy :
        GroupValue(s1, ret.groupBy[i]) = GroupValue(s2, ret.groupBy[i])

\* C24: with group-by keys, every matched series contributes to exactly one
\* result of AggregateQuery.Execute, two series contribute to the same result
\* exactly when their tagsets give every key the same value, and the Tags of
\* a result map every key to the value of its series.
C24_GroupPartition ==
    (ret.op = "AggregateQuery" /\ Len(ret.groupBy) > 0) =>
        /\ \A sid \in ret.ids :
              Cardinality({i \in DOMAIN ret.results :
                              sid \in ret.results[i].series}) = 1
        /\ \A s1, s2 \in ret.ids :
              (\E i \in DOMAIN ret.results :
                  s1 \in ret.results[i].series /\ s2 \in ret.results[i].series)
                 <=> SameGroup(s1, s2)
        /\ \A i \in DOMAIN ret.results :
              \A sid \in ret.results[i].series :
                  \A j \in DOMAIN ret.groupBy :
                      ret.results[i].Tags[ret.groupBy[j]]
                         = GroupValue(sid, ret.groupBy[j])

\* The filter the grammar gives t1 op1 t2 op2 t3: AND binds tighter than OR,
\* and both join to the left.
IsAnd(w) == ToUpper(w) = <<"A", "N", "D">>
IsOr(w) == ToUpper(w) = <<"O", "R">>
IsTagWord(w) == Len(w) = 3 /\ w[2] = ":"
TagOf(w) == TagFilter(<<w[1]>>, <<w[3]>>)
Joined(op, l, r) == IF IsAnd(op) THEN AndFilter(l, r) ELSE OrFilter(l, r)
Expected(w) ==
    IF IsOr(w[2]) /\ IsAnd(w[4])
    THEN OrFilter(TagOf(w[1]), AndFilter(TagOf(w[3]), TagOf(w[5])))
    ELSE Joined(w[4], Joined(w[2], TagOf(w[1]), TagOf(w[3])), TagOf(w[5]))

\* C25: ParseFilter gives 't1 op1 t2 op2 t3' the filter with AND binding
\* tighter than OR and both joined to the left, whatever the case of the
\* keywords, and gives '( t1 op1 t2 ) op2 t3' and 't1 op1 ( t2 op2 t3 )' the
\* filter the brackets say.
C25_Precedence ==
    ret.op = "ParseFilter" =>
        /\ (Len(arg) = 5 /\ IsTagWord(arg[1]) /\ IsTagWord(arg[3])
               /\ IsTagWord(arg[5]) /\ (IsAnd(arg[2]) \/ IsOr(arg[2]))
               /\ (IsAnd(arg[4]) \/ IsOr(arg[4])))
              => (ret.err = Nil /\ ret.filter = Expected(arg))
        /\ (Len(arg) = 7 /\ arg[1] = <<"(">> /\ IsTagWord(arg[2])
               /\ IsTagWord(arg[4]) /\ arg[5] = <<")">> /\ IsTagWord(arg[7])
               /\ (IsAnd(arg[3]) \/ IsOr(arg[3]))
               /\ (IsAnd(arg[6]) \/ IsOr(arg[6])))
              => (ret.err = Nil
                     /\ ret.filter = Joined(arg[6],
                                            Joined(arg[3], TagOf(arg[2]), TagOf(arg[4])),
                                            TagOf(arg[7])))
        /\ (Len(arg) = 7 /\ IsTagWord(arg[1]) /\ arg[3] = <<"(">>
               /\ IsTagWord(arg[4]) /\ IsTagWord(arg[6]) /\ arg[7] = <<")">>
               /\ (IsAnd(arg[2]) \/ IsOr(arg[2]))
               /\ (IsAnd(arg[5]) \/ IsOr(arg[5])))
              => (ret.err = Nil
                     /\ ret.filter = Joined(arg[2], TagOf(arg[1]),
                                            Joined(arg[5], TagOf(arg[4]), TagOf(arg[6]))))

\* ParseFilter has returned Or(a:b, And(b:c, a:b)) for 'a:b Or b:c and a:b'.
C25_Witness ==
    /\ ret.op = "ParseFilter"
    /\ arg = <<<<"a", ":", "b">>, <<"O", "r">>, <<"b", ":", "c">>,
               <<"a", "n", "d">>, <<"a", ":", "b">>>>
    /\ ret.filter = OrFilter(TagFilter(<<"a">>, <<"b">>),
                             AndFilter(TagFilter(<<"b">>, <<"c">>),
                                       TagFilter(<<"a">>, <<"b">>)))

\* The tokens lexer.next gives an input, up to the first tokenEOF.
RECURSIVE TokensFrom(_, _)
tokensAfter(input, n) ==
    IF n.tok.typ = tokenEOF THEN <<>>
    ELSE <<n.tok.typ>> \o TokensFrom(input, n.pos)
TokensFrom(input, pos) == tokensAfter(input, next(input, pos))

\* The sentences of the grammar, as sequences of token types.
RECURSIVE IsExpr(_)
RECURSIVE IsTerm(_)
IsTag(t) == t = <<tokenIdent, tokenColon, tokenIdent>>
IsFactor(t) ==
    \/ IsTag(t)
    \/ /\ Len(t) >= 2
       /\ t[1] = tokenLParen
       /\ t[Len(t)] = tokenRParen
       /\ IsExpr(SubSeq(t, 2, Len(t) - 1))
IsTerm(t) ==
    \/ IsFactor(t)
    \/ \E i \in 2..(Len(t) - 1) :
          /\ t[i] = tokenAnd
          /\ IsTerm(SubSeq(t, 1, i - 1))
          /\ IsFactor(SubSeq(t, i + 1, Len(t)))
IsExpr(t) ==
    \/ IsTerm(t)
    \/ \E i \in 2..(Len(t) - 1) :
          /\ t[i] = tokenOr
          /\ IsExpr(SubSeq(t, 1, i - 1))
          /\ IsTerm(SubSeq(t, i + 1, Len(t)))

\* C26: for an input that is not blank, ParseFilter returns an error exactly
\* when the tokens of the input are not a sentence of the grammar, and a
\* filter that is not nil when they are.
C26_ErrorIffNotSentence ==
    (ret.op = "ParseFilter" /\ ~blankFrom(Join(arg), 0)) =>
        /\ (ret.err /= Nil) <=> ~IsExpr(TokensFrom(Join(arg), 0))
        /\ IsExpr(TokensFrom(Join(arg), 0)) => ret.filter /= NoFilter

\* C27: a read that matches nothing is not an error: Query of a series ID
\* none of whose writes has returned nil gives no points and a nil error, a
\* lookup of a posting key under which no Index has returned nil gives an
\* empty bitmap and a nil error, and so does ExecuteRaw of a tag filter
\* whose posting key is such a key.
C27_MissNotError ==
    /\ (ret.op = "Query" /\ \A w \in DOMAIN written : w.id /= ret.id) =>
          (ret.pts = <<>> /\ ret.err = Nil)
    /\ (ret.op \in {"GetSeriesIDs", "GetAllSeriesIDs"}
           /\ IndexedUnder(ret.key) = {}) =>
          (ret.ids = {} /\ ret.err = Nil)
    /\ (/\ ret.op = "ExecuteRaw"
        /\ ret.filter /= NoFilter
        /\ ret.filter[1] = "tag"
        /\ IndexedUnder(formatTagKey(ret.metric, ret.filter[2],
                                     ret.filter[3])) = {}) =>
          (ret.ids = {} /\ ret.err = Nil)

\* A Query of a series ID that was never registered returned while the store
\* held points and postings of other series.
C27_Witness ==
    /\ ret.op = "Query"
    /\ ret.id \notin DOMAIN series
    /\ points /= EmptyMap
    /\ postings /= EmptyMap
    /\ ret.pts = <<>>

\* C28: Close is idempotent: a call on an open database closes the store
\* once and sets the closed flag; a call on a closed database returns nil
\* and does not close the store again; the store of one Database is closed
\* at most once, and the flag of one Database never goes back to false.
C28_CloseIdempotent ==
    [][/\ (session' = session /\ closed) => closed'
       /\ closes' <= 1
       /\ (ret'.op = "Close" /\ ~closed) => (closed' /\ closes' = closes + 1)
       /\ (ret'.op = "Close" /\ closed) =>
             (ret'.err = Nil /\ closed' /\ closes' = closes)]_vars

\* A second call of Close on a database has returned.
C28_Witness ==
    /\ ret.op = "Close"
    /\ ~ret.first
    /\ closed
    /\ closes = 1
    /\ series /= EmptyMap

\* The results of Execute over the resolved series on the data entries pts.
ResultsOn(th, pts) ==
    executeOn([db |-> [DB EXCEPT !.points = pts], err |-> Nil,
               bm |-> Fresh(th.ids)], th.opts).results

\* C29: the points one Execute (or QueryByMetric) call returns over the
\* matching series are those of a single state the store was in during the
\* call, so an atomically committed batch is in the results for all of the
\* series it touches or for none.
C29_SnapshotRead ==
    \A t \in Threads :
        (threads[t].op = "Execute" /\ threads[t].returned /\ threads[t].todo = <<>>)
            => \E pts \in threads[t].seen : threads[t].res = ResultsOn(threads[t], pts)

\* C30: in every state every series ID of the existence cache has its
\* SeriesMeta in the store, so that Exists returns true, and GetOrCreate
\* returns from its cache fast path, only for series the store holds.
C30_CachedIsStored ==
    /\ regCache \subseteq DOMAIN series
    /\ \A t \in Threads :
          (threads[t].op = "Exists" /\ threads[t].returned /\ threads[t].found)
              => threads[t].id \in DOMAIN series

\* C31: no two threads are inside a method of the same bitmap object at the
\* same time when one of the methods is Add.
C31_BitmapGuarded ==
    \A t1, t2 \in Threads :
        (t1 /= t2 /\ Writes(t1) /\ (Writes(t2) \/ Reads(t2)))
            => threads[t1].bm /= threads[t2].bm

\* The IDs of the bitmap a set operation returned.
ValueOf(r) == r.objs[r.bm]

\* The intersection or the union of the contents of a list of bitmaps, none
\* for an empty list.
SetOf(op, objs, bitmaps) ==
    IF Len(bitmaps) = 0 THEN {}
    ELSE IF op = "Intersect"
    THEN {x \in SetIDs : \A i \in DOMAIN bitmaps : x \in objs[bitmaps[i]]}
    ELSE {x \in SetIDs : \E i \in DOMAIN bitmaps : x \in objs[bitmaps[i]]}

\* The operation on the results of itself on the first k and on the other
\* bitmaps of a list.
Regrouped(op, objs, bitmaps, k) ==
    LET a == SetOp(op, objs, SubSeq(bitmaps, 1, k))
        b == SetOp(op, a.objs, SubSeq(bitmaps, k + 1, Len(bitmaps)))
    IN  ValueOf(SetOp(op, b.objs, <<a.bm, b.bm>>))

\* C32: Intersect and Union leave every input bitmap as it was and return a
\* new object; its contents are the intersection (union) of the inputs,
\* empty with no input and those of the input with one, whatever the order
\* and the grouping of the arguments.
C32_SetOperations ==
    ret.op \in {"Intersect", "Union"} =>
        /\ \A i \in DOMAIN ret.input.objs :
              ret.results.objs[i] = ret.input.objs[i]
        /\ ret.results.bm \notin DOMAIN ret.input.objs
        /\ ValueOf(ret.results)
              = SetOf(ret.op, ret.input.objs, ret.input.bitmaps)
        /\ \A q \in Reorderings(ret.input.bitmaps) :
              ValueOf(SetOp(ret.op, ret.input.objs, q)) = ValueOf(ret.results)
        /\ \A k \in 1..(Len(ret.input.bitmaps) - 1) :
              Regrouped(ret.op, ret.input.objs, ret.input.bitmaps, k)
                  = ValueOf(ret.results)

\* An Intersect of three arguments, two of them the same object, that cut
\* the first one down, has returned.
C32_Witness ==
    /\ ret.op = "Intersect"
    /\ Len(ret.input.bitmaps) = 3
    /\ ret.input.bitmaps[1] = ret.input.bitmaps[3]
    /\ ret.input.bitmaps[1] /= ret.input.bitmaps[2]
    /\ ValueOf(ret.results) /= ret.input.objs[ret.input.bitmaps[1]]
    /\ ValueOf(ret.results) /= {}

\* C33: the map Execute returns has an entry for a series ID iff the ID is
\* in the resolved filter set and Database.Query of it with the query's
\* options returns at least one point, and each entry is what that Query
\* returns.
C33_ExecuteEntries ==
    (ret.op = "Execute" /\ ret.err = Nil) =>
        /\ DOMAIN ret.results =
              {id \in ret.ids : Len(Query(DB, id, ret.opts)) > 0}
        /\ \A id \in DOMAIN ret.results :
              ret.results[id] = Query(DB, id, ret.opts)

\* An Execute with a filter and a time range returned the points of one
\* matching series and no entry for another, which has none in the range.
C33_Witness ==
    /\ ret.op = "Execute"
    /\ ret.filter /= NoFilter
    /\ ret.opts.Start > 0
    /\ DOMAIN ret.results /= {}
    /\ ret.ids \ DOMAIN ret.results /= {}

\* The results of a group-by Execute over the series ids with no fault.
GroupsOf(ids, opts, groupBy, aggOpts) ==
    executeWithGroupBy(DB, ids, opts, groupBy, aggOpts).results
AsSet(results) == {results[i] : i \in DOMAIN results}
MapValues(m) == {m[k] : k \in DOMAIN m}

\* C34: in a group-by Execute a matched series whose SeriesMeta cannot be
\* read is skipped: with no error of a data read Execute returns nil, no
\* result holds points of the series, and the results are those of the
\* other matched series alone; an error of the data read of a series that
\* is not skipped (a series with a point in the range whose value cannot be
\* read) is returned by Execute, with no results.
C34_SkipUnreadable ==
    (ret.op = "AggregateQuery" /\ Len(ret.groupBy) > 0) =>
        IF \E id \in (ret.ids \ ret.input.meta) \cap ret.input.data :
              Len(Query(DB, id, ret.opts)) > 0
        THEN ret.err = ErrRead /\ ret.results = <<>>
        ELSE /\ ret.err = Nil
             /\ \A i \in DOMAIN ret.results :
                   ret.results[i].series \cap ret.input.meta = {}
             /\ AsSet(ret.results)
                   = MapValues(GroupsOf(ret.ids \ ret.input.meta, ret.opts,
                                        ret.groupBy, ret.aggOpts))

\* A group-by Execute skipped one matched series, whose data could not be
\* read either, and returned buckets of another one.
C34_Witness ==
    /\ ret.op = "AggregateQuery"
    /\ Len(ret.groupBy) > 0
    /\ ret.err = Nil
    /\ ret.ids \cap ret.input.meta \cap ret.input.data /= {}
    /\ \E i \in DOMAIN ret.results : ret.results[i].Buckets /= <<>>

\* C35: every series whose SeriesMeta is in the store is in the stored
\* posting of its metric and of each of its tags, also after a WriteAt that
\* returned an error and after the write was tried again.
C35_RegistryIndexConsistent ==
    \A id \in DOMAIN series :
        \A i \in DOMAIN PostingKeys(series[id].m, series[id].t) :
            id \in StoredIDs(DB, PostingKeys(series[id].m, series[id].t)[i])

\* A thread is inside Index.
Indexing(t) ==
    threads[t].pc \in {"index_tag", "index_add", "index_adding", "persist_key",
                       "serializing", "persist_commit"}

\* C36: whenever no Index call is in flight, the cached bitmap of every
\* posting key in the cache of the index holds the IDs of the stored
\* posting of the key, none when the store has no entry for it.
C36_CacheWriteThrough ==
    (\A t \in Threads : ~Indexing(t)) =>
        \A key \in DOMAIN idxCache : heap[idxCache[key]] = StoredIDs(DB, key)

\* The timestamps stored for a series that satisfy the bounds that are > 0.
WithinPositiveBounds(db, seriesID, opts) ==
    {ts \in InRange(db, seriesID, QueryOptions(0, 0, 0)) :
        /\ opts.Start > 0 => opts.Start <= ts
        /\ opts.End > 0 => ts <= opts.End}

\* C37: with Limit = 0, Database.Query returns every stored point of the
\* series whose timestamp satisfies the bounds that are > 0, whatever the
\* stored timestamps.
C37_RangeComplete ==
    (ret.op = "Query" /\ ret.opts.Limit = 0) =>
        WithinPositiveBounds(DB, ret.id, ret.opts) \subseteq
            {RetTimestamps[i] : i \in DOMAIN ret.pts}

\* The points written under a series ID.
PointsWrittenTo(id) == {DataPoint(w.ts, written[w]) : w \in WrittenTo(id)}

\* C38: every point Database.Query returns for a series ID, and every point
\* an Iterator on the ID yields, was written under that ID, whatever other
\* series (neighbouring IDs included) have points.
C38_SeriesIsolation ==
    /\ ret.op = "Query" =>
          \A i \in DOMAIN ret.pts : ret.pts[i] \in PointsWrittenTo(ret.id)
    /\ \A i \in DOMAIN iter.out : iter.out[i] \in PointsWrittenTo(iter.seriesID)

\* Query has returned points of a series whose successor has points at the
\* same timestamps, after an iterator on the series has yielded points and
\* is exhausted.
C38_Witness ==
    /\ ret.op = "Query"
    /\ Len(ret.pts) > 0
    /\ iter.done
    /\ iter.seriesID = ret.id
    /\ Len(iter.out) > 0
    /\ \A i \in DOMAIN ret.pts :
          /\ EncodeDataKey(ret.id + 1, ret.pts[i].Timestamp) \in DOMAIN points
          /\ EncodeDataKey(ret.id + 1, ret.pts[i].Timestamp) \in DOMAIN iter.snap

\* A series is registered and is in the posting of its metric and of each of
\* its tags, as the lookups of the index see them.
RegisteredAndIndexed(id) ==
    /\ id \in DOMAIN series
    /\ \A i \in DOMAIN PostingKeys(series[id].m, series[id].t) :
          id \in LookupIDs(DB, PostingKeys(series[id].m, series[id].t)[i])

\* The series that a write created (GetOrCreate returned created = true to
\* it).
CreatedByWrite == {x.id : x \in indexed}

\* C39: when BatchWriter.WriteAt has returned nil for a series it created,
\* the series is registered and indexed while the store has no data entry of
\* the batch (its data entries are those of before the batch); after Cancel
\* the series the batch created are still registered and indexed, and
\* GetOrCreate for one returns created = false.
C39_RegisteredBeforeFlush ==
    /\ (ret.op = "BatchWriteAt" /\ ret.err = Nil /\ ret.id \in CreatedByWrite) =>
          /\ RegisteredAndIndexed(ret.id)
          /\ points = batch.base
    /\ batch.state = "cancelled" =>
          \A id \in CreatedByWrite :
              /\ RegisteredAndIndexed(id)
              /\ ~GetOrCreate(DB, series[id].m, series[id].t).created

\* The same without the data entries: registration and indexing only.
BatchRegistration ==
    /\ (ret.op = "BatchWriteAt" /\ ret.err = Nil /\ ret.id \in CreatedByWrite) =>
          RegisteredAndIndexed(ret.id)
    /\ batch.state = "cancelled" =>
          \A id \in CreatedByWrite :
              /\ RegisteredAndIndexed(id)
              /\ ~GetOrCreate(DB, series[id].m, series[id].t).created

\* Next has returned false to the last call of the iterator.
Exhausted == Len(iter.calls) > 0 /\ ~iter.calls[Len(iter.calls)].ok

\* Once Next has returned false, it returns false to every later call, and
\* Value returns what it returned before that call.
StaysExhausted ==
    \A i \in DOMAIN iter.calls :
        (i > 1 /\ ~iter.calls[i - 1].ok) =>
            /\ ~iter.calls[i].ok
            /\ iter.calls[i].value = iter.calls[i - 1].value

\* Value after a Next that returned false is the point of the last Next that
\* returned true.
KeepsLastPoint ==
    \A i \in DOMAIN iter.calls :
        (i > 1 /\ ~iter.calls[i].ok) =>
            iter.calls[i].value = iter.calls[i - 1].value

\* C40: the calls of Next on an open iterator lead to one that returns false
\* (or to Close); once Next has returned false every later Next returns
\* false, and Value keeps returning the last point yielded.
C40_Exhausts ==
    /\ [](StaysExhausted /\ KeepsLastPoint)
    /\ (iter.state = "open") ~> (iter.state = "closed" \/ Exhausted)

\* Next has returned false after yielding a point, then false again, with
\* keys left beyond the cursor.
C40_Witness ==
    /\ Len(iter.calls) >= 3
    /\ iter.calls[Len(iter.calls) - 2].ok
    /\ ~iter.calls[Len(iter.calls) - 1].ok
    /\ ~iter.calls[Len(iter.calls)].ok
    /\ Len(iter.keys) > 1


=============================================================================
